---- MODULE Spec2Model ----
(***************************************************************************)
(* Debito Automatico meta-service (src/meta_service/fast.py and            *)
(* temporal.py): SMS text-signal extraction, derived metrics, ratios,      *)
(* pairwise feature expansion, projection onto the classifier's columns,   *)
(* the threshold decision and the request handler around them.             *)
(*                                                                         *)
(* Numbers are exact rationals [n, d] in lowest terms with d > 0; d = 0    *)
(* stands for the non-finite floats: n > 0 is +inf, n < 0 is -inf and      *)
(* n = 0 is NaN.  A record holds the exact value of each quotient; the     *)
(* rounding of the stored binary64 value is given apart, for the quotients *)
(* of the ratio stage, by QuotientRounding.  Strings are TLA+ strings,     *)
(* read one character at a time with SubSeq.  A one-row DataFrame (or a    *)
(* dict) is [cols, val]: the column names in order and the value of each.  *)
(***************************************************************************)
EXTENDS Integers, Sequences, FiniteSets, TLC

\* Longest SMS log a request fetches in the model.
MaxMsgs == 2
\* Integer operands of the expansion drawn in SpecFn range over -MaxVal..MaxVal.
MaxVal == 1
\* The two concurrent requests of SpecConc draw their messages among the
\* first ConcPool messages of the pool.
ConcPool == 3
\* Longest list of devices get_sms_by_uuid_devices is given in SpecSms.
MaxDevices == 3

(***************************************************************************)
(* Numbers                                                                 *)
(***************************************************************************)
Abs(x) == IF x < 0 THEN -x ELSE x

Sign(x) == IF x > 0 THEN 1 ELSE IF x < 0 THEN -1 ELSE 0

RECURSIVE GCD(_, _)
GCD(a, b) == IF b = 0 THEN a ELSE GCD(b, a % b)

\* n/d as a float value: lowest terms, positive denominator; x/0 as numpy
\* divides (inf with the sign of x, NaN for 0/0).
Q(n, d) ==
  IF d = 0 THEN [n |-> Sign(n), d |-> 0]
  ELSE LET g == GCD(Abs(n), Abs(d))
           s == IF d < 0 THEN -1 ELSE 1
       IN  [n |-> (s * n) \div g, d |-> (s * d) \div g]

I(n) == [n |-> n, d |-> 1]

PInf == [n |-> 1, d |-> 0]

NInf == [n |-> -1, d |-> 0]

NaN == [n |-> 0, d |-> 0]

IsFinite(v) == v.d > 0

IsNaN(v) == v.d = 0 /\ v.n = 0

IsInf(v) == v.d = 0 /\ v.n # 0

\* float addition
FAdd(x, y) ==
  IF IsNaN(x) \/ IsNaN(y) THEN NaN
  ELSE IF IsInf(x) /\ IsInf(y) THEN (IF x.n = y.n THEN x ELSE NaN)
  ELSE IF IsInf(x) THEN x
  ELSE IF IsInf(y) THEN y
  ELSE Q(x.n * y.d + y.n * x.d, x.d * y.d)

FNeg(x) == [n |-> -(x.n), d |-> x.d]

\* float division as numpy does it: x/0 is +-inf, 0/0 and inf/inf are NaN
FDiv(x, y) ==
  IF IsNaN(x) \/ IsNaN(y) THEN NaN
  ELSE IF IsInf(x) /\ IsInf(y) THEN NaN
  ELSE IF IsInf(x) THEN (IF y.n < 0 THEN FNeg(x) ELSE x)
  ELSE IF IsInf(y) THEN I(0)
  ELSE Q(x.n * y.d, x.d * y.n)

FLess(x, y) == IsFinite(x) /\ IsFinite(y) /\ x.n * y.d < y.n * x.d

(***************************************************************************)
(* Dicts and one-row DataFrames: [cols, vals], the names in order and the  *)
(* value under each                                                        *)
(***************************************************************************)
Range(s) == {s[i] : i \in 1..Len(s)}

Max(S) == CHOOSE x \in S : \A y \in S : y <= x

Min(S) == CHOOSE x \in S : \A y \in S : x <= y

HasCol(df, c) == \E i \in 1..Len(df.cols) : df.cols[i] = c

\* the place of column c
Index(cols, c) == Min({i \in 1..Len(cols) : cols[i] = c})

\* df[c]
Get(df, c) == df.vals[Index(df.cols, c)]

EmptyDf == [cols |-> <<>>, vals |-> <<>>]

\* A dict built by assigning vals[i] to keys[i] for i = 1, 2, ...: a key keeps
\* the place of its first assignment and the value of its last.
FromAssignments(keys, vals) ==
  IF Cardinality(Range(keys)) = Len(keys)
  THEN [cols |-> keys, vals |-> vals]
  ELSE LET n     == Len(keys)
           first == SelectSeq([i \in 1..n |-> i],
                              LAMBDA i : \A j \in 1..(i - 1) : keys[j] # keys[i])
       IN  [cols |-> [m \in 1..Len(first) |-> keys[first[m]]],
            vals |-> [m \in 1..Len(first) |->
                        vals[Max({j \in 1..n : keys[j] = keys[first[m]]})]]]

\* dict.update(other): a new key goes last, an existing key keeps its place
Update(df, other) ==
  LET added == SelectSeq(other.cols, LAMBDA c : ~HasCol(df, c))
      cols  == df.cols \o added
  IN  [cols |-> cols,
       vals |-> [i \in 1..Len(cols) |->
                   IF HasCol(other, cols[i]) THEN Get(other, cols[i]) ELSE df.vals[i]]]

\* d[c] = v
SetCol(df, c, v) == Update(df, [cols |-> <<c>>, vals |-> <<v>>])

(***************************************************************************)
(* Strings                                                                 *)
(***************************************************************************)
Chr(s, i) == SubSeq(s, i, i)

UPPER == "ABCDEFGHIJKLMNOPQRSTUVWXYZÓÑ"

LOWER == "abcdefghijklmnopqrstuvwxyzóñ"

DIGITS == "0123456789"

WORDCHARS == "abcdefghijklmnopqrstuvwxyz0123456789_óñáéíúü"

InStr(c, set) == \E i \in 1..Len(set) : Chr(set, i) = c

LowerChr(c) ==
  IF InStr(c, UPPER)
  THEN Chr(LOWER, CHOOSE i \in 1..Len(UPPER) : Chr(UPPER, i) = c)
  ELSE c

\* the characters lo..hi of s, each in lower case
RECURSIVE LowerRange(_, _, _)
LowerRange(s, lo, hi) ==
  IF lo > hi THEN ""
  ELSE IF lo = hi THEN LowerChr(Chr(s, lo))
  ELSE LET mid == (lo + hi) \div 2
       IN  LowerRange(s, lo, mid) \o LowerRange(s, mid + 1, hi)

\* case folding, as re.IGNORECASE compares
Lower(s) == LowerRange(s, 1, Len(s))

StartsAt(s, i, p) == i >= 1 /\ i + Len(p) - 1 <= Len(s) /\ SubSeq(s, i, i + Len(p) - 1) = p

EndsWith(s, p) == Len(s) >= Len(p) /\ StartsAt(s, Len(s) - Len(p) + 1, p)

Contains(s, p) == \E i \in 1..(Len(s) - Len(p) + 1) : StartsAt(s, i, p)

ContainsAny(s, alts) == \E k \in 1..Len(alts) : Contains(s, alts[k])

\* the character at position i exists and is one of set
CharIn(s, i, set) == i >= 1 /\ i <= Len(s) /\ InStr(Chr(s, i), set)

IsDigit(s, i) == CharIn(s, i, DIGITS)

IsWord(s, i) == CharIn(s, i, WORDCHARS)

IsSpace(s, i) == i >= 1 /\ i <= Len(s) /\ Chr(s, i) \in {" ", "\t", "\n"}

\* \b between positions i-1 and i
Boundary(s, i) == IsWord(s, i - 1) # IsWord(s, i)

\* str.replace(old, new): every occurrence, left to right
RECURSIVE ReplaceFrom(_, _, _, _)
ReplaceFrom(s, i, old, new) ==
  IF i > Len(s) THEN ""
  ELSE IF StartsAt(s, i, old) THEN new \o ReplaceFrom(s, i + Len(old), old, new)
  ELSE Chr(s, i) \o ReplaceFrom(s, i + 1, old, new)

Replace(s, old, new) == ReplaceFrom(s, 1, old, new)

\* \b(?:w1|w2|...)\b on a lowercased string
WordMatch(s, alts) ==
  \E k \in 1..Len(alts) : \E i \in 1..Len(s) :
     /\ StartsAt(s, i, alts[k])
     /\ Boundary(s, i)
     /\ Boundary(s, i + Len(alts[k]))

\* \s*(?:pesos|cop) from position j
RECURSIVE AmountUnit(_, _, _)
AmountUnit(s, j, units) ==
  \/ \E k \in 1..Len(units) : StartsAt(s, j, units[k])
  \/ IsSpace(s, j) /\ AmountUnit(s, j + 1, units)

\* (?:,\d{2})?\s*(?:pesos|cop) from position j
AmountCents(s, j, units) ==
  \/ AmountUnit(s, j, units)
  \/ StartsAt(s, j, ",") /\ IsDigit(s, j + 1) /\ IsDigit(s, j + 2) /\ AmountUnit(s, j + 3, units)

\* (?:\.\d{3})*(?:,\d{2})?\s*(?:pesos|cop) from position j
RECURSIVE AmountGroups(_, _, _)
AmountGroups(s, j, units) ==
  \/ AmountCents(s, j, units)
  \/ /\ StartsAt(s, j, ".") /\ IsDigit(s, j + 1) /\ IsDigit(s, j + 2) /\ IsDigit(s, j + 3)
     /\ AmountGroups(s, j + 4, units)

\* \$[\d.,]+|\b\d{1,3}(?:\.\d{3})*(?:,\d{2})?\s*(?:pesos|cop) on a lowercased string
MontosMatch(s, units) ==
  \/ \E i \in 1..Len(s) :
        StartsAt(s, i, "$") /\ (IsDigit(s, i + 1) \/ StartsAt(s, i + 1, ".") \/ StartsAt(s, i + 1, ","))
  \/ \E i \in 1..Len(s) :
        /\ Boundary(s, i)
        /\ \E n \in 1..3 :
              /\ \A m \in 0..(n - 1) : IsDigit(s, i + m)
              /\ AmountGroups(s, i + n, units)

\* \s*am\b from position j
RECURSIVE HourAm(_, _)
HourAm(s, j) ==
  \/ StartsAt(s, j, "am") /\ Boundary(s, j + 2)
  \/ IsSpace(s, j) /\ HourAm(s, j + 1)

\* \b(0[1-4]:[0-5]\d\s*am|madrugada)\b on a lowercased string
HorariosMatch(s, words) ==
  \/ WordMatch(s, words)
  \/ \E i \in 1..Len(s) :
        /\ Boundary(s, i)
        /\ StartsAt(s, i, "0")
        /\ CharIn(s, i + 1, "1234")
        /\ StartsAt(s, i + 2, ":")
        /\ CharIn(s, i + 3, "012345")
        /\ IsDigit(s, i + 4)
        /\ HourAm(s, i + 5)

\* whatsapp|wa.me on a lowercased string ("." is any character but a newline)
WhatsappMatch(s) ==
  \/ Contains(s, "whatsapp")
  \/ \E i \in 1..Len(s) :
        StartsAt(s, i, "wa") /\ i + 2 <= Len(s) /\ Chr(s, i + 2) # "\n" /\ StartsAt(s, i + 3, "me")

\* number of \d characters of s
CountDigits(s) == Cardinality({i \in 1..Len(s) : IsDigit(s, i)})

(***************************************************************************)
(* Feature lists and the signal table                                      *)
(***************************************************************************)
BASE_FEATURES_LIST ==
  << "tarjetas_credito_count", "zona_premium_count", "engagement_score",
     "impuestos_obligaciones_count", "credito_formal", "servicios_publicos_count",
     "prepago_count", "casas_empeno_count", "pospago_vs_prepago",
     "emergencia_medica_count", "mensajes_positivos_count", "vulnerabilidad_financiera",
     "educacion_count", "pensiones_cesantias_count", "ratio_aprobaciones_rechazos" >>

SELECTED_FEATURES ==
  << "message_count", "nivel_transaccional", "engagement_score", "score_riesgo",
     "R_tarjetas_credito_count_vs_ratio_aprobaciones_rechazos",
     "R_zona_premium_count_vs_servicios_publicos_count",
     "R_zona_premium_count_vs_mensajes_positivos_count",
     "R_zona_premium_count_vs_vulnerabilidad_financiera",
     "R_engagement_score_vs_impuestos_obligaciones_count",
     "R_credito_formal_vs_tarjetas_credito_count",
     "R_credito_formal_vs_ratio_aprobaciones_rechazos",
     "R_servicios_publicos_count_vs_tarjetas_credito_count",
     "R_casas_empeno_count_vs_credito_formal",
     "R_emergencia_medica_count_vs_mensajes_positivos_count",
     "R_emergencia_medica_count_vs_ratio_aprobaciones_rechazos",
     "R_vulnerabilidad_financiera_vs_credito_formal",
     "R_educacion_count_vs_credito_formal",
     "R_educacion_count_vs_mensajes_positivos_count",
     "R_educacion_count_vs_pensiones_cesantias_count",
     "R_ratio_aprobaciones_rechazos_vs_credito_formal" >>

\* The body signals of extract_all_variables, in source order: the count of
\* messages whose body matches the pattern, case-insensitively.  kind "lit" is
\* an alternation of literals; the three regular expressions are matched by
\* MontosMatch, WordMatch and HorariosMatch over the literals they contain.
BodySignals ==
  <<
    [name |-> "nequi_count", kind |-> "lit", alts |-> <<"nequi">>],
    [name |-> "bancolombia_count", kind |-> "lit", alts |-> <<"bancolombia">>],
    [name |-> "davivienda_count", kind |-> "lit", alts |-> <<"davivienda">>],
    [name |-> "cotizante_count", kind |-> "lit", alts |-> <<"cotizante">>],
    [name |-> "impuesto_count", kind |-> "lit", alts |-> <<"dian", "impuesto">>],
    [name |-> "prepago_count", kind |-> "lit", alts |-> <<"recarga", "prepago">>],
    [name |-> "nomina_count", kind |-> "lit", alts |-> <<"nomina", "proveedor", "salario">>],
    [name |-> "educacion_count", kind |-> "lit", alts |-> <<"escolar", "matricula", "universidad", "colegio">>],
    [name |-> "servicios_publicos_count", kind |-> "lit", alts |-> <<"epm", "codensa", "gas natural", "acueducto">>],
    [name |-> "salud_seguros_count", kind |-> "lit", alts |-> <<"eps", "sura", "sanitas", "compensar">>],
    [name |-> "ingresos_count", kind |-> "lit", alts |-> <<"consignacion", "deposito", "transferencia recibida">>],
    [name |-> "gastos_count", kind |-> "lit", alts |-> <<"compra", "retiro", "pago realizado", "debito">>],
    [name |-> "saldo_bajo_count", kind |-> "lit", alts |-> <<"saldo insuficiente", "sin saldo">>],
    [name |-> "cobranza_count", kind |-> "lit", alts |-> <<"cobranza", "cobro", "juridico", "multa">>],
    [name |-> "mora_count", kind |-> "lit", alts |-> <<"vencido", "mora", "atrasado", "pendiente">>],
    [name |-> "aprobaciones_count", kind |-> "lit", alts |-> <<"preaprobado", "aprobado", "cupo disponible">>],
    [name |-> "rechazos_count", kind |-> "lit", alts |-> <<"rechazado", "negado", "no aprobado">>],
    [name |-> "montos_count", kind |-> "montos", alts |-> <<"pesos", "cop">>],
    [name |-> "otp_count", kind |-> "otp", alts |-> <<"codigo", "clave", "otp", "token">>],
    [name |-> "transporte_count", kind |-> "lit", alts |-> <<"transmilenio", "sitp", "taxi", "beat", "uber">>],
    [name |-> "inversiones_count", kind |-> "lit", alts |-> <<"cdt", "inversion", "rentabilidad">>],
    [name |-> "credito_grande_count", kind |-> "lit", alts |-> <<"hipoteca", "credito vehiculo", "leasing">>],
    [name |-> "pensiones_cesantias_count", kind |-> "lit", alts |-> <<"colpensiones", "porvenir", "proteccion">>],
    [name |-> "arriendos_count", kind |-> "lit", alts |-> <<"arriendo", "arrendamiento", "canon">>],
    [name |-> "cooperativas_count", kind |-> "lit", alts |-> <<"cooperativa", "coomeva", "copetran">>],
    [name |-> "casas_empeno_count", kind |-> "lit", alts |-> <<"prenda", "empeño", "gota a gota">>],
    [name |-> "corresponsales_count", kind |-> "lit", alts |-> <<"baloto", "via baloto", "corresponsal">>],
    [name |-> "subsidios_count", kind |-> "lit", alts |-> <<"familias en accion", "jovenes en accion", "subsidio">>],
    [name |-> "tarjetas_credito_count", kind |-> "lit", alts |-> <<"visa", "mastercard", "american express">>],
    [name |-> "ahorro_inversion_count", kind |-> "lit", alts |-> <<"ahorro programado", "cdt virtual">>],
    [name |-> "pago_puntual_count", kind |-> "lit", alts |-> <<"pago exitoso", "pago confirmado">>],
    [name |-> "fidelizacion_count", kind |-> "lit", alts |-> <<"felicitaciones", "premio", "beneficio">>],
    [name |-> "microcreditos_count", kind |-> "lit", alts |-> <<"microcredito", "credito de consumo">>],
    [name |-> "compras_credito_count", kind |-> "lit", alts |-> <<"cuotas sin interes", "financiacion">>],
    [name |-> "mensajeria_count", kind |-> "lit", alts |-> <<"domicilio", "mensajeria", "envio">>],
    [name |-> "gasolina_peajes_count", kind |-> "lit", alts |-> <<"gasolina", "estacion de servicio", "peaje">>],
    [name |-> "medicina_prepagada_count", kind |-> "lit", alts |-> <<"colsanitas", "medisanitas", "colmedica">>],
    [name |-> "gimnasios_count", kind |-> "lit", alts |-> <<"gimnasio", "bodytech", "smartfit">>],
    [name |-> "viajes_count", kind |-> "lit", alts |-> <<"avianca", "latam", "viva air", "despegar">>],
    [name |-> "seguros_varios_count", kind |-> "lit", alts |-> <<"seguro de vida", "soat", "seguro todo riesgo">>],
    [name |-> "impuestos_obligaciones_count", kind |-> "lit", alts |-> <<"predial", "vehiculo", "renta", "retencion">>],
    [name |-> "restaurantes_count", kind |-> "lit", alts |-> <<"restaurante", "cine", "teatro">>],
    [name |-> "groserias_count", kind |-> "lit", alts |-> <<"hp", "hijueputa", "malparido">>],
    [name |-> "apuestas_count", kind |-> "lit", alts |-> <<"apuesta", "betplay", "wplay">>],
    [name |-> "alcohol_count", kind |-> "lit", alts |-> <<"cerveza", "aguardiente", "ron">>],
    [name |-> "comida_rapida_count", kind |-> "lit", alts |-> <<"dominos", "papa johns", "burger king">>],
    [name |-> "emergencia_medica_count", kind |-> "lit", alts |-> <<"emergencia", "urgencia medica">>],
    [name |-> "economia_informal_count", kind |-> "lit", alts |-> <<"rebusque", "camello", "chambita">>],
    [name |-> "efectivo_count", kind |-> "lit", alts |-> <<"efectivo", "cash", "plata en mano">>],
    [name |-> "ventas_catalogo_count", kind |-> "lit", alts |-> <<"yanbal", "avon", "natura">>],
    [name |-> "familia_count", kind |-> "lit", alts |-> <<"hijo", "hija", "bebe", "esposa">>],
    [name |-> "deportes_premium_count", kind |-> "lit", alts |-> <<"golf", "tenis", "equitacion">>],
    [name |-> "transporte_particular_count", kind |-> "lit", alts |-> <<"carro propio", "vehiculo particular">>],
    [name |-> "educacion_privada_count", kind |-> "lit", alts |-> <<"colegio privado", "universidad privada">>],
    [name |-> "zona_premium_count", kind |-> "lit", alts |-> <<"chicó", "rosales", "virrey">>],
    [name |-> "marcas_lujo_count", kind |-> "lit", alts |-> <<"apple", "iphone", "samsung galaxy">>],
    [name |-> "prestamos_conocidos_count", kind |-> "lit", alts |-> <<"prestame", "me prestas", "favor presta">>],
    [name |-> "busqueda_empleo_count", kind |-> "lit", alts |-> <<"vacante", "empleo", "trabajo">>],
    [name |-> "cancelaciones_count", kind |-> "lit", alts |-> <<"cancelar pedido", "devolucion">>],
    [name |-> "mensajes_positivos_count", kind |-> "lit", alts |-> <<"gracias", "agradezco", "excelente servicio">>],
    [name |-> "horarios_sospechosos_count", kind |-> "horarios", alts |-> <<"madrugada">>],
    [name |-> "ciudades_principales_count", kind |-> "lit", alts |-> <<"bogota", "medellin", "cali">>],
    [name |-> "productos_financieros_col_count", kind |-> "lit", alts |-> <<"ahorro a la mano", "cuenta amiga">>],
    [name |-> "comercios_populares_count", kind |-> "lit", alts |-> <<"tiendas d1", "justo y bueno", "ara">>],
    [name |-> "informalidad_laboral_count", kind |-> "lit", alts |-> <<"vendedor ambulante", "reciclador">>],
    [name |-> "negociacion_regateo_count", kind |-> "lit", alts |-> <<"rebaja", "descuento", "negociar">>],
    [name |-> "problemas_climaticos_count", kind |-> "lit", alts |-> <<"inundacion", "derrumbe">>],
    [name |-> "actividades_agro_count", kind |-> "lit", alts |-> <<"cosecha", "siembra", "ganado">>],
    [name |-> "internet_conectividad_count", kind |-> "lit", alts |-> <<"wifi", "internet", "datos moviles">>],
    [name |-> "violencia_inseguridad_count", kind |-> "lit", alts |-> <<"robo", "atraco", "inseguridad">>],
    [name |-> "actividades_comunitarias_count", kind |-> "lit", alts |-> <<"junta de accion", "reunion vecinos">>],
    [name |-> "otros_bancos_count", kind |-> "lit", alts |-> <<"bbva", "colpatria", "caja social">>],
    [name |-> "billeteras_count", kind |-> "lit", alts |-> <<"daviplata", "movii", "dale">>],
    [name |-> "ecommerce_count", kind |-> "lit", alts |-> <<"mercadolibre", "amazon", "netflix">>],
    [name |-> "retail_count", kind |-> "lit", alts |-> <<"exito", "carulla", "jumbo", "d1">>],
    [name |-> "fintech_count", kind |-> "lit", alts |-> <<"dineroya", "rapicredit">>],
    [name |-> "telco_count", kind |-> "lit", alts |-> <<"claro", "movistar", "tigo">>],
    [name |-> "geeks_count", kind |-> "lit", alts |-> <<"uber", "rappi", "cabify">>]
  >>

(***************************************************************************)
(* SMSVariableExtractor                                                    *)
(***************************************************************************)
\* The columns of pd.DataFrame(sms_data): every key of any message.
Columns(sms_data) == UNION {DOMAIN sms_data[i] : i \in 1..Len(sms_data)}

\* A cell after fillna(''): a key the message lacks is NaN, then ''.
Cell(m, c) == IF c \in DOMAIN m THEN m[c] ELSE ""

\* df.get(c, default) for a column of strings: the column when the frame has
\* it, else the default (a scalar, broadcast to every row).
DfGet(sms_data, i, c, default) ==
  IF c \in Columns(sms_data) THEN Cell(sms_data[i], c) ELSE default

\* _convert_to_dataframe with the sender appended to the text that is matched
convert_to_dataframe_sender_in_body(sms_data) ==
  [i \in 1..Len(sms_data) |->
     [body    |-> Cell(sms_data[i], "body") \o " " \o Cell(sms_data[i], "address"),
      address |-> Cell(sms_data[i], "address")]]

\* _convert_to_dataframe without lines 244-245: a row holds body and address
\* only when the frame has the column
convert_to_dataframe_no_fallback(sms_data) ==
  [i \in 1..Len(sms_data) |->
     [c \in {"body", "address"} \cap Columns(sms_data) |-> Cell(sms_data[i], c)]]

\* _convert_to_dataframe with the fallback taken message by message
convert_to_dataframe_per_message(sms_data) ==
  [i \in 1..Len(sms_data) |->
     LET m == sms_data[i]
     IN  [body    |-> IF "body" \in DOMAIN m THEN m["body"]
                      ELSE IF "content" \in DOMAIN m THEN m["content"]
                      ELSE Cell(m, "message"),
          address |-> IF "address" \in DOMAIN m THEN m["address"]
                      ELSE IF "sender" \in DOMAIN m THEN m["sender"]
                      ELSE IF "from" \in DOMAIN m THEN m["from"] ELSE "unknown"]]

\* _convert_to_dataframe: the body and address of every row
convert_to_dataframe(sms_data) ==
  [i \in 1..Len(sms_data) |->
     [body    |-> IF "body" \in Columns(sms_data) THEN Cell(sms_data[i], "body")
                  ELSE DfGet(sms_data, i, "content", DfGet(sms_data, i, "message", "")),
      address |-> IF "address" \in Columns(sms_data) THEN Cell(sms_data[i], "address")
                  ELSE DfGet(sms_data, i, "sender", DfGet(sms_data, i, "from", "unknown"))]]

\* one body signal on one lowercased body
SignalMatch(sig, lbody) ==
  CASE sig.kind = "lit"      -> ContainsAny(lbody, sig.alts)
    [] sig.kind = "montos"   -> MontosMatch(lbody, sig.alts)
    [] sig.kind = "otp"      -> WordMatch(lbody, sig.alts)
    [] sig.kind = "horarios" -> HorariosMatch(lbody, sig.alts)

\* series.sum() of a boolean column
CountRows(n, P(_)) == Cardinality({i \in 1..n : P(i)})

RawCols ==
  <<"message_count">> \o [k \in 1..Len(BodySignals) |-> BodySignals[k].name]
  \o <<"pospago_vs_prepago", "address_count", "pishing_count", "email_count", "whatsapp_count">>

\* the raw variables with the operands of pospago_vs_prepago exchanged
RawVariables_prepago_first(df) ==
  LET n     == Len(df)
      lbody == [i \in 1..n |-> Lower(df[i].body)] \o <<>>
      laddr == [i \in 1..n |-> Lower(df[i].address)] \o <<>>
      hits  == [k \in 1..Len(BodySignals) |->
                  I(CountRows(n, LAMBDA i : SignalMatch(BodySignals[k], lbody[i])))]
      pospago_vs_prepago ==
        CountRows(n, LAMBDA i : Contains(lbody[i], "prepago"))
        - CountRows(n, LAMBDA i : Contains(lbody[i], "pospago"))
      address_count  == Cardinality({df[i].address : i \in 1..n})
      pishing_count  == CountRows(n, LAMBDA i : CountDigits(df[i].address) >= 10)
      email_count    == CountRows(n, LAMBDA i : Contains(df[i].address, "@"))
      whatsapp_count == CountRows(n, LAMBDA i : WhatsappMatch(laddr[i]))
  IN  [cols |-> RawCols,
       vals |-> <<I(n)>> \o hits
                \o <<I(pospago_vs_prepago), I(address_count), I(pishing_count),
                     I(email_count), I(whatsapp_count)>>]

\* the raw variables with the sender signals matched on the body column
RawVariables_sender_from_body(df) ==
  LET n     == Len(df)
      lbody == [i \in 1..n |-> Lower(df[i].body)] \o <<>>
      laddr == [i \in 1..n |-> Lower(df[i].address)] \o <<>>
      hits  == [k \in 1..Len(BodySignals) |->
                  I(CountRows(n, LAMBDA i : SignalMatch(BodySignals[k], lbody[i])))]
      pospago_vs_prepago ==
        CountRows(n, LAMBDA i : Contains(lbody[i], "pospago"))
        - CountRows(n, LAMBDA i : Contains(lbody[i], "prepago"))
      address_count  == Cardinality({df[i].address : i \in 1..n})
      pishing_count  == CountRows(n, LAMBDA i : CountDigits(df[i].body) >= 10)
      email_count    == CountRows(n, LAMBDA i : Contains(df[i].body, "@"))
      whatsapp_count == CountRows(n, LAMBDA i : WhatsappMatch(lbody[i]))
  IN  [cols |-> RawCols,
       vals |-> <<I(n)>> \o hits
                \o <<I(pospago_vs_prepago), I(address_count), I(pishing_count),
                     I(email_count), I(whatsapp_count)>>]

\* the raw variables with every matching alternative of a signal counted,
\* not every matching message
RawVariables_per_alternative(df) ==
  LET n     == Len(df)
      lbody == [i \in 1..n |-> Lower(df[i].body)] \o <<>>
      laddr == [i \in 1..n |-> Lower(df[i].address)] \o <<>>
      hits  == [k \in 1..Len(BodySignals) |->
                  I(IF BodySignals[k].kind = "lit"
                    THEN Cardinality({<<i, a>> \in (1..n) \X (1..Len(BodySignals[k].alts)) :
                                       Contains(lbody[i], BodySignals[k].alts[a])})
                    ELSE CountRows(n, LAMBDA i : SignalMatch(BodySignals[k], lbody[i])))]
      pospago_vs_prepago ==
        CountRows(n, LAMBDA i : Contains(lbody[i], "pospago"))
        - CountRows(n, LAMBDA i : Contains(lbody[i], "prepago"))
      address_count  == Cardinality({df[i].address : i \in 1..n})
      pishing_count  == CountRows(n, LAMBDA i : CountDigits(df[i].address) >= 10)
      email_count    == CountRows(n, LAMBDA i : Contains(df[i].address, "@"))
      whatsapp_count == CountRows(n, LAMBDA i : WhatsappMatch(laddr[i]))
  IN  [cols |-> RawCols,
       vals |-> <<I(n)>> \o hits
                \o <<I(pospago_vs_prepago), I(address_count), I(pishing_count),
                     I(email_count), I(whatsapp_count)>>]

\* the raw variables of extract_all_variables for a non-empty frame
RawVariables(df) ==
  LET n     == Len(df)
      lbody == [i \in 1..n |-> Lower(df[i].body)] \o <<>>
      laddr == [i \in 1..n |-> Lower(df[i].address)] \o <<>>
      hits  == [k \in 1..Len(BodySignals) |->
                  I(CountRows(n, LAMBDA i : SignalMatch(BodySignals[k], lbody[i])))]
      pospago_vs_prepago ==
        CountRows(n, LAMBDA i : Contains(lbody[i], "pospago"))
        - CountRows(n, LAMBDA i : Contains(lbody[i], "prepago"))
      address_count  == Cardinality({df[i].address : i \in 1..n})
      pishing_count  == CountRows(n, LAMBDA i : CountDigits(df[i].address) >= 10)
      email_count    == CountRows(n, LAMBDA i : Contains(df[i].address, "@"))
      whatsapp_count == CountRows(n, LAMBDA i : WhatsappMatch(laddr[i]))
  IN  [cols |-> RawCols,
       vals |-> <<I(n)>> \o hits
                \o <<I(pospago_vs_prepago), I(address_count), I(pishing_count),
                     I(email_count), I(whatsapp_count)>>]

\* int(x > 0)
Flag(x) == IF x > 0 THEN 1 ELSE 0

DerivedCols ==
  << "ratio_ingresos_gastos", "ratio_aprobaciones_rechazos", "tiene_nomina",
     "tiene_servicios_publicos", "tiene_salud", "alertas_riesgo", "nivel_transaccional",
     "diversificacion_financiera", "engagement_score", "estabilidad_laboral",
     "obligaciones_fijas", "estres_financiero", "buen_comportamiento_pago", "credito_formal",
     "ratio_credito_formal_informal", "gastos_discrecionales", "prevision_financiera",
     "cumplimiento_tributario", "inclusion_financiera", "ratio_obligaciones_ingresos",
     "score_riesgo", "estabilidad_emocional", "riesgo_comportamental", "nivel_socioeconomico",
     "presion_financiera", "formalidad_financiera", "score_confiabilidad",
     "vulnerabilidad_financiera", "informalidad_total", "vulnerabilidad_contextual",
     "modernizacion_financiera", "score_riesgo_final" >>

\* _calculate_derived_variables with score_riesgo weighing estres_financiero by 3
\* and buen_comportamiento_pago by 2
calculate_derived_variables_weights(variables) ==
  LET v(k) == Get(variables, k).n
      nivel_transaccional == v("ingresos_count") + v("gastos_count") + v("montos_count")
      diversificacion_financiera ==
        Flag(v("nequi_count")) + Flag(v("bancolombia_count")) + Flag(v("davivienda_count"))
        + Flag(v("otros_bancos_count")) + Flag(v("billeteras_count"))
      engagement_score ==
        v("otp_count") * 2 + nivel_transaccional + diversificacion_financiera * 3
      estabilidad_laboral ==
        v("nomina_count") + v("pensiones_cesantias_count") + v("cooperativas_count")
      obligaciones_fijas ==
        v("arriendos_count") + v("servicios_publicos_count") + v("medicina_prepagada_count")
        + v("gimnasios_count")
      estres_financiero ==
        v("casas_empeno_count") + v("saldo_bajo_count") + v("mora_count") + v("cobranza_count")
        + v("rechazos_count")
      buen_comportamiento_pago ==
        v("pago_puntual_count") + v("fidelizacion_count") + v("aprobaciones_count")
      credito_formal ==
        v("tarjetas_credito_count") + v("microcreditos_count") + v("credito_grande_count")
      score_riesgo ==
        estres_financiero * 3 - buen_comportamiento_pago * 2 - estabilidad_laboral * 2
        + v("casas_empeno_count") * 5
      riesgo_comportamental ==
        v("groserias_count") + v("apuestas_count") + v("alcohol_count")
        + v("horarios_sospechosos_count") + v("prestamos_conocidos_count")
      nivel_socioeconomico ==
        v("zona_premium_count") + v("educacion_privada_count") + v("marcas_lujo_count")
        + v("deportes_premium_count") + v("transporte_particular_count")
        - v("economia_informal_count") - v("subsidios_count")
      presion_financiera ==
        v("prestamos_conocidos_count") + v("emergencia_medica_count") + v("busqueda_empleo_count")
        + v("economia_informal_count") + v("cancelaciones_count")
      score_confiabilidad ==
        v("mensajes_positivos_count") + v("pago_puntual_count") + v("fidelizacion_count")
        - v("groserias_count") - v("cancelaciones_count") - v("horarios_sospechosos_count")
      vulnerabilidad_financiera ==
        v("prestamos_conocidos_count") + v("casas_empeno_count") + v("emergencia_medica_count")
        + v("busqueda_empleo_count") + v("economia_informal_count") + v("ventas_catalogo_count")
      informalidad_total ==
        v("economia_informal_count") + v("informalidad_laboral_count") + v("efectivo_count")
        + v("negociacion_regateo_count") + v("ventas_catalogo_count")
      vulnerabilidad_contextual ==
        v("violencia_inseguridad_count") + v("problemas_climaticos_count")
        + v("actividades_comunitarias_count") + v("comercios_populares_count")
      modernizacion_financiera ==
        v("productos_financieros_col_count") + v("internet_conectividad_count") + v("otp_count")
        + v("billeteras_count") - v("efectivo_count")
      \* 0.3, 0.2, 0.15, 0.1, 0.15, 0.1, -0.25, -0.15, -0.1, in hundredths
      score_riesgo_final ==
        Q(score_riesgo * 30 + riesgo_comportamental * 20 + vulnerabilidad_financiera * 15
          + informalidad_total * 10 + presion_financiera * 15 + vulnerabilidad_contextual * 10
          - score_confiabilidad * 25 - modernizacion_financiera * 15 - nivel_socioeconomico * 10,
          100)
      value(c) ==
        CASE c = "ratio_ingresos_gastos" -> Q(v("ingresos_count"), v("gastos_count") + 1)
          [] c = "ratio_aprobaciones_rechazos" ->
               Q(v("aprobaciones_count"), v("rechazos_count") + 1)
          [] c = "tiene_nomina" -> I(Flag(v("nomina_count")))
          [] c = "tiene_servicios_publicos" -> I(Flag(v("servicios_publicos_count")))
          [] c = "tiene_salud" -> I(Flag(v("salud_seguros_count")))
          [] c = "alertas_riesgo" ->
               I(v("saldo_bajo_count") + v("mora_count") + v("cobranza_count")
                 + v("rechazos_count"))
          [] c = "nivel_transaccional" -> I(nivel_transaccional)
          [] c = "diversificacion_financiera" -> I(diversificacion_financiera)
          [] c = "engagement_score" -> I(engagement_score)
          [] c = "estabilidad_laboral" -> I(estabilidad_laboral)
          [] c = "obligaciones_fijas" -> I(obligaciones_fijas)
          [] c = "estres_financiero" -> I(estres_financiero)
          [] c = "buen_comportamiento_pago" -> I(buen_comportamiento_pago)
          [] c = "credito_formal" -> I(credito_formal)
          [] c = "ratio_credito_formal_informal" -> Q(credito_formal, v("casas_empeno_count") + 1)
          [] c = "gastos_discrecionales" ->
               I(v("viajes_count") + v("restaurantes_count") + v("gimnasios_count")
                 + v("ecommerce_count"))
          [] c = "prevision_financiera" ->
               I(v("seguros_varios_count") + v("ahorro_inversion_count")
                 + v("pensiones_cesantias_count") + v("inversiones_count"))
          [] c = "cumplimiento_tributario" ->
               I(v("impuesto_count") + v("impuestos_obligaciones_count"))
          [] c = "inclusion_financiera" ->
               I(diversificacion_financiera + Flag(v("subsidios_count"))
                 + Flag(v("cooperativas_count")) + Flag(v("ahorro_inversion_count")))
          [] c = "ratio_obligaciones_ingresos" ->
               Q(obligaciones_fijas, v("ingresos_count") + v("nomina_count") + 1)
          [] c = "score_riesgo" -> I(score_riesgo)
          [] c = "estabilidad_emocional" ->
               I(v("mensajes_positivos_count") - v("groserias_count") - v("alcohol_count")
                 - v("apuestas_count"))
          [] c = "riesgo_comportamental" -> I(riesgo_comportamental)
          [] c = "nivel_socioeconomico" -> I(nivel_socioeconomico)
          [] c = "presion_financiera" -> I(presion_financiera)
          [] c = "formalidad_financiera" ->
               I(v("pospago_vs_prepago") + Flag(v("transporte_particular_count"))
                 + Flag(v("educacion_privada_count")) - v("efectivo_count")
                 - v("economia_informal_count"))
          [] c = "score_confiabilidad" -> I(score_confiabilidad)
          [] c = "vulnerabilidad_financiera" -> I(vulnerabilidad_financiera)
          [] c = "informalidad_total" -> I(informalidad_total)
          [] c = "vulnerabilidad_contextual" -> I(vulnerabilidad_contextual)
          [] c = "modernizacion_financiera" -> I(modernizacion_financiera)
          [] c = "score_riesgo_final" -> score_riesgo_final
  IN  [cols |-> DerivedCols, vals |-> [i \in 1..Len(DerivedCols) |-> value(DerivedCols[i])]]

\* _calculate_derived_variables with no 1 added to the denominators
calculate_derived_variables_bare_denominators(variables) ==
  LET v(k) == Get(variables, k).n
      nivel_transaccional == v("ingresos_count") + v("gastos_count") + v("montos_count")
      diversificacion_financiera ==
        Flag(v("nequi_count")) + Flag(v("bancolombia_count")) + Flag(v("davivienda_count"))
        + Flag(v("otros_bancos_count")) + Flag(v("billeteras_count"))
      engagement_score ==
        v("otp_count") * 2 + nivel_transaccional + diversificacion_financiera * 3
      estabilidad_laboral ==
        v("nomina_count") + v("pensiones_cesantias_count") + v("cooperativas_count")
      obligaciones_fijas ==
        v("arriendos_count") + v("servicios_publicos_count") + v("medicina_prepagada_count")
        + v("gimnasios_count")
      estres_financiero ==
        v("casas_empeno_count") + v("saldo_bajo_count") + v("mora_count") + v("cobranza_count")
        + v("rechazos_count")
      buen_comportamiento_pago ==
        v("pago_puntual_count") + v("fidelizacion_count") + v("aprobaciones_count")
      credito_formal ==
        v("tarjetas_credito_count") + v("microcreditos_count") + v("credito_grande_count")
      score_riesgo ==
        estres_financiero * 2 - buen_comportamiento_pago * 3 - estabilidad_laboral * 2
        + v("casas_empeno_count") * 5
      riesgo_comportamental ==
        v("groserias_count") + v("apuestas_count") + v("alcohol_count")
        + v("horarios_sospechosos_count") + v("prestamos_conocidos_count")
      nivel_socioeconomico ==
        v("zona_premium_count") + v("educacion_privada_count") + v("marcas_lujo_count")
        + v("deportes_premium_count") + v("transporte_particular_count")
        - v("economia_informal_count") - v("subsidios_count")
      presion_financiera ==
        v("prestamos_conocidos_count") + v("emergencia_medica_count") + v("busqueda_empleo_count")
        + v("economia_informal_count") + v("cancelaciones_count")
      score_confiabilidad ==
        v("mensajes_positivos_count") + v("pago_puntual_count") + v("fidelizacion_count")
        - v("groserias_count") - v("cancelaciones_count") - v("horarios_sospechosos_count")
      vulnerabilidad_financiera ==
        v("prestamos_conocidos_count") + v("casas_empeno_count") + v("emergencia_medica_count")
        + v("busqueda_empleo_count") + v("economia_informal_count") + v("ventas_catalogo_count")
      informalidad_total ==
        v("economia_informal_count") + v("informalidad_laboral_count") + v("efectivo_count")
        + v("negociacion_regateo_count") + v("ventas_catalogo_count")
      vulnerabilidad_contextual ==
        v("violencia_inseguridad_count") + v("problemas_climaticos_count")
        + v("actividades_comunitarias_count") + v("comercios_populares_count")
      modernizacion_financiera ==
        v("productos_financieros_col_count") + v("internet_conectividad_count") + v("otp_count")
        + v("billeteras_count") - v("efectivo_count")
      \* 0.3, 0.2, 0.15, 0.1, 0.15, 0.1, -0.25, -0.15, -0.1, in hundredths
      score_riesgo_final ==
        Q(score_riesgo * 30 + riesgo_comportamental * 20 + vulnerabilidad_financiera * 15
          + informalidad_total * 10 + presion_financiera * 15 + vulnerabilidad_contextual * 10
          - score_confiabilidad * 25 - modernizacion_financiera * 15 - nivel_socioeconomico * 10,
          100)
      value(c) ==
        CASE c = "ratio_ingresos_gastos" -> FDiv(I(v("ingresos_count")), I(v("gastos_count")))
          [] c = "ratio_aprobaciones_rechazos" ->
               FDiv(I(v("aprobaciones_count")), I(v("rechazos_count")))
          [] c = "tiene_nomina" -> I(Flag(v("nomina_count")))
          [] c = "tiene_servicios_publicos" -> I(Flag(v("servicios_publicos_count")))
          [] c = "tiene_salud" -> I(Flag(v("salud_seguros_count")))
          [] c = "alertas_riesgo" ->
               I(v("saldo_bajo_count") + v("mora_count") + v("cobranza_count")
                 + v("rechazos_count"))
          [] c = "nivel_transaccional" -> I(nivel_transaccional)
          [] c = "diversificacion_financiera" -> I(diversificacion_financiera)
          [] c = "engagement_score" -> I(engagement_score)
          [] c = "estabilidad_laboral" -> I(estabilidad_laboral)
          [] c = "obligaciones_fijas" -> I(obligaciones_fijas)
          [] c = "estres_financiero" -> I(estres_financiero)
          [] c = "buen_comportamiento_pago" -> I(buen_comportamiento_pago)
          [] c = "credito_formal" -> I(credito_formal)
          [] c = "ratio_credito_formal_informal" -> FDiv(I(credito_formal), I(v("casas_empeno_count")))
          [] c = "gastos_discrecionales" ->
               I(v("viajes_count") + v("restaurantes_count") + v("gimnasios_count")
                 + v("ecommerce_count"))
          [] c = "prevision_financiera" ->
               I(v("seguros_varios_count") + v("ahorro_inversion_count")
                 + v("pensiones_cesantias_count") + v("inversiones_count"))
          [] c = "cumplimiento_tributario" ->
               I(v("impuesto_count") + v("impuestos_obligaciones_count"))
          [] c = "inclusion_financiera" ->
               I(diversificacion_financiera + Flag(v("subsidios_count"))
                 + Flag(v("cooperativas_count")) + Flag(v("ahorro_inversion_count")))
          [] c = "ratio_obligaciones_ingresos" ->
               FDiv(I(obligaciones_fijas), I(v("ingresos_count") + v("nomina_count")))
          [] c = "score_riesgo" -> I(score_riesgo)
          [] c = "estabilidad_emocional" ->
               I(v("mensajes_positivos_count") - v("groserias_count") - v("alcohol_count")
                 - v("apuestas_count"))
          [] c = "riesgo_comportamental" -> I(riesgo_comportamental)
          [] c = "nivel_socioeconomico" -> I(nivel_socioeconomico)
          [] c = "presion_financiera" -> I(presion_financiera)
          [] c = "formalidad_financiera" ->
               I(v("pospago_vs_prepago") + Flag(v("transporte_particular_count"))
                 + Flag(v("educacion_privada_count")) - v("efectivo_count")
                 - v("economia_informal_count"))
          [] c = "score_confiabilidad" -> I(score_confiabilidad)
          [] c = "vulnerabilidad_financiera" -> I(vulnerabilidad_financiera)
          [] c = "informalidad_total" -> I(informalidad_total)
          [] c = "vulnerabilidad_contextual" -> I(vulnerabilidad_contextual)
          [] c = "modernizacion_financiera" -> I(modernizacion_financiera)
          [] c = "score_riesgo_final" -> score_riesgo_final
  IN  [cols |-> DerivedCols, vals |-> [i \in 1..Len(DerivedCols) |-> value(DerivedCols[i])]]

\* _calculate_derived_variables with diversificacion_financiera adding the five
\* counts themselves
calculate_derived_variables_bank_counts(variables) ==
  LET v(k) == Get(variables, k).n
      nivel_transaccional == v("ingresos_count") + v("gastos_count") + v("montos_count")
      diversificacion_financiera ==
        v("nequi_count") + v("bancolombia_count") + v("davivienda_count")
        + v("otros_bancos_count") + v("billeteras_count")
      engagement_score ==
        v("otp_count") * 2 + nivel_transaccional + diversificacion_financiera * 3
      estabilidad_laboral ==
        v("nomina_count") + v("pensiones_cesantias_count") + v("cooperativas_count")
      obligaciones_fijas ==
        v("arriendos_count") + v("servicios_publicos_count") + v("medicina_prepagada_count")
        + v("gimnasios_count")
      estres_financiero ==
        v("casas_empeno_count") + v("saldo_bajo_count") + v("mora_count") + v("cobranza_count")
        + v("rechazos_count")
      buen_comportamiento_pago ==
        v("pago_puntual_count") + v("fidelizacion_count") + v("aprobaciones_count")
      credito_formal ==
        v("tarjetas_credito_count") + v("microcreditos_count") + v("credito_grande_count")
      score_riesgo ==
        estres_financiero * 2 - buen_comportamiento_pago * 3 - estabilidad_laboral * 2
        + v("casas_empeno_count") * 5
      riesgo_comportamental ==
        v("groserias_count") + v("apuestas_count") + v("alcohol_count")
        + v("horarios_sospechosos_count") + v("prestamos_conocidos_count")
      nivel_socioeconomico ==
        v("zona_premium_count") + v("educacion_privada_count") + v("marcas_lujo_count")
        + v("deportes_premium_count") + v("transporte_particular_count")
        - v("economia_informal_count") - v("subsidios_count")
      presion_financiera ==
        v("prestamos_conocidos_count") + v("emergencia_medica_count") + v("busqueda_empleo_count")
        + v("economia_informal_count") + v("cancelaciones_count")
      score_confiabilidad ==
        v("mensajes_positivos_count") + v("pago_puntual_count") + v("fidelizacion_count")
        - v("groserias_count") - v("cancelaciones_count") - v("horarios_sospechosos_count")
      vulnerabilidad_financiera ==
        v("prestamos_conocidos_count") + v("casas_empeno_count") + v("emergencia_medica_count")
        + v("busqueda_empleo_count") + v("economia_informal_count") + v("ventas_catalogo_count")
      informalidad_total ==
        v("economia_informal_count") + v("informalidad_laboral_count") + v("efectivo_count")
        + v("negociacion_regateo_count") + v("ventas_catalogo_count")
      vulnerabilidad_contextual ==
        v("violencia_inseguridad_count") + v("problemas_climaticos_count")
        + v("actividades_comunitarias_count") + v("comercios_populares_count")
      modernizacion_financiera ==
        v("productos_financieros_col_count") + v("internet_conectividad_count") + v("otp_count")
        + v("billeteras_count") - v("efectivo_count")
      \* 0.3, 0.2, 0.15, 0.1, 0.15, 0.1, -0.25, -0.15, -0.1, in hundredths
      score_riesgo_final ==
        Q(score_riesgo * 30 + riesgo_comportamental * 20 + vulnerabilidad_financiera * 15
          + informalidad_total * 10 + presion_financiera * 15 + vulnerabilidad_contextual * 10
          - score_confiabilidad * 25 - modernizacion_financiera * 15 - nivel_socioeconomico * 10,
          100)
      value(c) ==
        CASE c = "ratio_ingresos_gastos" -> Q(v("ingresos_count"), v("gastos_count") + 1)
          [] c = "ratio_aprobaciones_rechazos" ->
               Q(v("aprobaciones_count"), v("rechazos_count") + 1)
          [] c = "tiene_nomina" -> I(Flag(v("nomina_count")))
          [] c = "tiene_servicios_publicos" -> I(Flag(v("servicios_publicos_count")))
          [] c = "tiene_salud" -> I(Flag(v("salud_seguros_count")))
          [] c = "alertas_riesgo" ->
               I(v("saldo_bajo_count") + v("mora_count") + v("cobranza_count")
                 + v("rechazos_count"))
          [] c = "nivel_transaccional" -> I(nivel_transaccional)
          [] c = "diversificacion_financiera" -> I(diversificacion_financiera)
          [] c = "engagement_score" -> I(engagement_score)
          [] c = "estabilidad_laboral" -> I(estabilidad_laboral)
          [] c = "obligaciones_fijas" -> I(obligaciones_fijas)
          [] c = "estres_financiero" -> I(estres_financiero)
          [] c = "buen_comportamiento_pago" -> I(buen_comportamiento_pago)
          [] c = "credito_formal" -> I(credito_formal)
          [] c = "ratio_credito_formal_informal" -> Q(credito_formal, v("casas_empeno_count") + 1)
          [] c = "gastos_discrecionales" ->
               I(v("viajes_count") + v("restaurantes_count") + v("gimnasios_count")
                 + v("ecommerce_count"))
          [] c = "prevision_financiera" ->
               I(v("seguros_varios_count") + v("ahorro_inversion_count")
                 + v("pensiones_cesantias_count") + v("inversiones_count"))
          [] c = "cumplimiento_tributario" ->
               I(v("impuesto_count") + v("impuestos_obligaciones_count"))
          [] c = "inclusion_financiera" ->
               I(diversificacion_financiera + Flag(v("subsidios_count"))
                 + Flag(v("cooperativas_count")) + Flag(v("ahorro_inversion_count")))
          [] c = "ratio_obligaciones_ingresos" ->
               Q(obligaciones_fijas, v("ingresos_count") + v("nomina_count") + 1)
          [] c = "score_riesgo" -> I(score_riesgo)
          [] c = "estabilidad_emocional" ->
               I(v("mensajes_positivos_count") - v("groserias_count") - v("alcohol_count")
                 - v("apuestas_count"))
          [] c = "riesgo_comportamental" -> I(riesgo_comportamental)
          [] c = "nivel_socioeconomico" -> I(nivel_socioeconomico)
          [] c = "presion_financiera" -> I(presion_financiera)
          [] c = "formalidad_financiera" ->
               I(v("pospago_vs_prepago") + Flag(v("transporte_particular_count"))
                 + Flag(v("educacion_privada_count")) - v("efectivo_count")
                 - v("economia_informal_count"))
          [] c = "score_confiabilidad" -> I(score_confiabilidad)
          [] c = "vulnerabilidad_financiera" -> I(vulnerabilidad_financiera)
          [] c = "informalidad_total" -> I(informalidad_total)
          [] c = "vulnerabilidad_contextual" -> I(vulnerabilidad_contextual)
          [] c = "modernizacion_financiera" -> I(modernizacion_financiera)
          [] c = "score_riesgo_final" -> score_riesgo_final
  IN  [cols |-> DerivedCols, vals |-> [i \in 1..Len(DerivedCols) |-> value(DerivedCols[i])]]

\* _calculate_derived_variables: the raw variables are integers (v), the
\* derived ones integers or quotients of integers
calculate_derived_variables(variables) ==
  LET v(k) == Get(variables, k).n
      nivel_transaccional == v("ingresos_count") + v("gastos_count") + v("montos_count")
      diversificacion_financiera ==
        Flag(v("nequi_count")) + Flag(v("bancolombia_count")) + Flag(v("davivienda_count"))
        + Flag(v("otros_bancos_count")) + Flag(v("billeteras_count"))
      engagement_score ==
        v("otp_count") * 2 + nivel_transaccional + diversificacion_financiera * 3
      estabilidad_laboral ==
        v("nomina_count") + v("pensiones_cesantias_count") + v("cooperativas_count")
      obligaciones_fijas ==
        v("arriendos_count") + v("servicios_publicos_count") + v("medicina_prepagada_count")
        + v("gimnasios_count")
      estres_financiero ==
        v("casas_empeno_count") + v("saldo_bajo_count") + v("mora_count") + v("cobranza_count")
        + v("rechazos_count")
      buen_comportamiento_pago ==
        v("pago_puntual_count") + v("fidelizacion_count") + v("aprobaciones_count")
      credito_formal ==
        v("tarjetas_credito_count") + v("microcreditos_count") + v("credito_grande_count")
      score_riesgo ==
        estres_financiero * 2 - buen_comportamiento_pago * 3 - estabilidad_laboral * 2
        + v("casas_empeno_count") * 5
      riesgo_comportamental ==
        v("groserias_count") + v("apuestas_count") + v("alcohol_count")
        + v("horarios_sospechosos_count") + v("prestamos_conocidos_count")
      nivel_socioeconomico ==
        v("zona_premium_count") + v("educacion_privada_count") + v("marcas_lujo_count")
        + v("deportes_premium_count") + v("transporte_particular_count")
        - v("economia_informal_count") - v("subsidios_count")
      presion_financiera ==
        v("prestamos_conocidos_count") + v("emergencia_medica_count") + v("busqueda_empleo_count")
        + v("economia_informal_count") + v("cancelaciones_count")
      score_confiabilidad ==
        v("mensajes_positivos_count") + v("pago_puntual_count") + v("fidelizacion_count")
        - v("groserias_count") - v("cancelaciones_count") - v("horarios_sospechosos_count")
      vulnerabilidad_financiera ==
        v("prestamos_conocidos_count") + v("casas_empeno_count") + v("emergencia_medica_count")
        + v("busqueda_empleo_count") + v("economia_informal_count") + v("ventas_catalogo_count")
      informalidad_total ==
        v("economia_informal_count") + v("informalidad_laboral_count") + v("efectivo_count")
        + v("negociacion_regateo_count") + v("ventas_catalogo_count")
      vulnerabilidad_contextual ==
        v("violencia_inseguridad_count") + v("problemas_climaticos_count")
        + v("actividades_comunitarias_count") + v("comercios_populares_count")
      modernizacion_financiera ==
        v("productos_financieros_col_count") + v("internet_conectividad_count") + v("otp_count")
        + v("billeteras_count") - v("efectivo_count")
      \* 0.3, 0.2, 0.15, 0.1, 0.15, 0.1, -0.25, -0.15, -0.1, in hundredths
      score_riesgo_final ==
        Q(score_riesgo * 30 + riesgo_comportamental * 20 + vulnerabilidad_financiera * 15
          + informalidad_total * 10 + presion_financiera * 15 + vulnerabilidad_contextual * 10
          - score_confiabilidad * 25 - modernizacion_financiera * 15 - nivel_socioeconomico * 10,
          100)
      value(c) ==
        CASE c = "ratio_ingresos_gastos" -> Q(v("ingresos_count"), v("gastos_count") + 1)
          [] c = "ratio_aprobaciones_rechazos" ->
               Q(v("aprobaciones_count"), v("rechazos_count") + 1)
          [] c = "tiene_nomina" -> I(Flag(v("nomina_count")))
          [] c = "tiene_servicios_publicos" -> I(Flag(v("servicios_publicos_count")))
          [] c = "tiene_salud" -> I(Flag(v("salud_seguros_count")))
          [] c = "alertas_riesgo" ->
               I(v("saldo_bajo_count") + v("mora_count") + v("cobranza_count")
                 + v("rechazos_count"))
          [] c = "nivel_transaccional" -> I(nivel_transaccional)
          [] c = "diversificacion_financiera" -> I(diversificacion_financiera)
          [] c = "engagement_score" -> I(engagement_score)
          [] c = "estabilidad_laboral" -> I(estabilidad_laboral)
          [] c = "obligaciones_fijas" -> I(obligaciones_fijas)
          [] c = "estres_financiero" -> I(estres_financiero)
          [] c = "buen_comportamiento_pago" -> I(buen_comportamiento_pago)
          [] c = "credito_formal" -> I(credito_formal)
          [] c = "ratio_credito_formal_informal" -> Q(credito_formal, v("casas_empeno_count") + 1)
          [] c = "gastos_discrecionales" ->
               I(v("viajes_count") + v("restaurantes_count") + v("gimnasios_count")
                 + v("ecommerce_count"))
          [] c = "prevision_financiera" ->
               I(v("seguros_varios_count") + v("ahorro_inversion_count")
                 + v("pensiones_cesantias_count") + v("inversiones_count"))
          [] c = "cumplimiento_tributario" ->
               I(v("impuesto_count") + v("impuestos_obligaciones_count"))
          [] c = "inclusion_financiera" ->
               I(diversificacion_financiera + Flag(v("subsidios_count"))
                 + Flag(v("cooperativas_count")) + Flag(v("ahorro_inversion_count")))
          [] c = "ratio_obligaciones_ingresos" ->
               Q(obligaciones_fijas, v("ingresos_count") + v("nomina_count") + 1)
          [] c = "score_riesgo" -> I(score_riesgo)
          [] c = "estabilidad_emocional" ->
               I(v("mensajes_positivos_count") - v("groserias_count") - v("alcohol_count")
                 - v("apuestas_count"))
          [] c = "riesgo_comportamental" -> I(riesgo_comportamental)
          [] c = "nivel_socioeconomico" -> I(nivel_socioeconomico)
          [] c = "presion_financiera" -> I(presion_financiera)
          [] c = "formalidad_financiera" ->
               I(v("pospago_vs_prepago") + Flag(v("transporte_particular_count"))
                 + Flag(v("educacion_privada_count")) - v("efectivo_count")
                 - v("economia_informal_count"))
          [] c = "score_confiabilidad" -> I(score_confiabilidad)
          [] c = "vulnerabilidad_financiera" -> I(vulnerabilidad_financiera)
          [] c = "informalidad_total" -> I(informalidad_total)
          [] c = "vulnerabilidad_contextual" -> I(vulnerabilidad_contextual)
          [] c = "modernizacion_financiera" -> I(modernizacion_financiera)
          [] c = "score_riesgo_final" -> score_riesgo_final
  IN  [cols |-> DerivedCols, vals |-> [i \in 1..Len(DerivedCols) |-> value(DerivedCols[i])]]

\* sum(variables.get(col, 0) for col in count_cols), over count_cols[lo..hi]
RECURSIVE SumCols(_, _, _, _)
SumCols(variables, count_cols, lo, hi) ==
  IF lo > hi THEN 0
  ELSE IF lo = hi THEN Get(variables, count_cols[lo]).n
  ELSE LET mid == (lo + hi) \div 2
       IN  SumCols(variables, count_cols, lo, mid) + SumCols(variables, count_cols, mid + 1, hi)

\* the ratio loop dividing by message_count
RatioLoop_over_messages(variables, count_cols) ==
  LET total  == Get(variables, "message_count").n
      names  == [i \in 1..Len(count_cols) |-> Replace(count_cols[i], "_count", "_ratio")] \o <<>>
      ratios == [i \in 1..Len(count_cols) |->
                   IF total > 0 THEN Q(Get(variables, count_cols[i]).n, total) ELSE I(0)]
  IN  Update(variables, FromAssignments(names, ratios))

\* the ratio loop emitting percentages
RatioLoop_percent(variables, count_cols) ==
  LET total  == Get(variables, "total_count").n
      names  == [i \in 1..Len(count_cols) |-> Replace(count_cols[i], "_count", "_ratio")] \o <<>>
      ratios == [i \in 1..Len(count_cols) |->
                   IF total > 0 THEN Q(100 * Get(variables, count_cols[i]).n, total) ELSE I(0)]
  IN  Update(variables, FromAssignments(names, ratios))

\* the ratio loop: one <name>_ratio per <name>_count, over total_count.  No
\* name it assigns ends in "_count", so every count it reads is the one it
\* started with.
RatioLoop(variables, count_cols) ==
  LET total  == Get(variables, "total_count").n
      names  == [i \in 1..Len(count_cols) |-> Replace(count_cols[i], "_count", "_ratio")] \o <<>>
      ratios == [i \in 1..Len(count_cols) |->
                   IF total > 0 THEN Q(Get(variables, count_cols[i]).n, total) ELSE I(0)]
  IN  Update(variables, FromAssignments(names, ratios))

\* 2^e mod t
RECURSIVE Pow2Mod(_, _)
Pow2Mod(e, t) ==
  IF e = 0 THEN 1 % t
  ELSE LET h  == Pow2Mod(e \div 2, t)
           sq == (h * h) % t
       IN  IF e % 2 = 1 THEN (2 * sq) % t ELSE sq

\* the least k with count * 2^k >= total, for 0 < count <= total: the
\* quotient lies in [2^-k, 2^-(k-1))
RECURSIVE BinaryExponent(_, _)
BinaryExponent(count, total) ==
  IF count >= total THEN 0 ELSE 1 + BinaryExponent(2 * count, total)

\* the binary64 quotient count / total of two small integers, 0 < count <=
\* total, is the multiple of 2^-e nearest to the exact quotient, e = 52 + k:
\* it is the exact quotient plus err / (total * 2^e).  (A tie would need an
\* exact quotient of 54 bits, which no small total has.)
QuotientRounding(count, total) ==
  LET e == 52 + BinaryExponent(count, total)
      r == (count * Pow2Mod(e, total)) % total
  IN  [e |-> e, err |-> IF 2 * r > total THEN total - r ELSE 0 - r]

\* _get_empty_variables with message_count among the zeroed keys
get_empty_variables_counted ==
  [cols |-> <<"message_count">> \o BASE_FEATURES_LIST,
   vals |-> [i \in 1..(Len(BASE_FEATURES_LIST) + 1) |-> I(0)]]

\* _get_empty_variables
get_empty_variables ==
  [cols |-> BASE_FEATURES_LIST, vals |-> [i \in 1..Len(BASE_FEATURES_LIST) |-> I(0)]]

\* extract_all_variables with total_count summed over every variable
extract_all_variables_sum_all(df) ==
  IF Len(df) = 0 THEN get_empty_variables
  ELSE LET raw        == RawVariables(df)
           variables  == Update(raw, calculate_derived_variables(raw))
           count_cols == SelectSeq(variables.cols, LAMBDA col : EndsWith(col, "_count"))
           total      == SumCols(variables, variables.cols, 1, Len(variables.cols))
       IN  RatioLoop(SetCol(variables, "total_count", I(total)), count_cols)

\* extract_all_variables on the frame of _convert_to_dataframe
extract_all_variables(df) ==
  IF Len(df) = 0 THEN get_empty_variables
  ELSE LET raw        == RawVariables(df)
           variables  == Update(raw, calculate_derived_variables(raw))
           count_cols == SelectSeq(variables.cols, LAMBDA col : EndsWith(col, "_count"))
           total      == SumCols(variables, count_cols, 1, Len(count_cols))
       IN  RatioLoop(SetCol(variables, "total_count", I(total)), count_cols)

\* df['body'] (line 255) and df['address'] (line 338) raise KeyError on a
\* frame without the column
ExtractRaises(df) ==
  \E i \in 1..Len(df) : ~({"body", "address"} \subseteq DOMAIN df[i])

\* mensajes (michael in temporal.py): the one-row frame of the variables
mensajes(sms_logs) == extract_all_variables(convert_to_dataframe(sms_logs))

(***************************************************************************)
(* Feature expansion and selection                                         *)
(***************************************************************************)
\* epsilon = 0.0001
epsilon == Q(1, 10000)

\* list(combinations(BASE_FEATURES_LIST, 2)): each unordered pair once
Pairs_combinations ==
  LET n  == Len(BASE_FEATURES_LIST)
      ij == SelectSeq([k \in 1..(n * n) |-> <<((k - 1) \div n) + 1, ((k - 1) % n) + 1>>],
                      LAMBDA p : p[1] < p[2])
  IN  [k \in 1..Len(ij) |-> <<BASE_FEATURES_LIST[ij[k][1]], BASE_FEATURES_LIST[ij[k][2]]>>]

\* list(permutations(BASE_FEATURES_LIST, 2)): by first index, then second
Pairs ==
  LET n == Len(BASE_FEATURES_LIST)
  IN  [k \in 1..(n * (n - 1)) |->
         LET i == ((k - 1) \div (n - 1)) + 1
             r == ((k - 1) % (n - 1)) + 1
             j == IF r < i THEN r ELSE r + 1
         IN  <<BASE_FEATURES_LIST[i], BASE_FEATURES_LIST[j]>>]

\* the name with the two columns in the order of BASE_FEATURES_LIST
RatioName_unordered(col_a, col_b) ==
  IF Index(BASE_FEATURES_LIST, col_a) < Index(BASE_FEATURES_LIST, col_b)
  THEN "R_" \o col_a \o "_vs_" \o col_b
  ELSE "R_" \o col_b \o "_vs_" \o col_a

\* f"R_{col_a}_vs_{col_b}"
RatioName(col_a, col_b) == "R_" \o col_a \o "_vs_" \o col_b

PairNames == [k \in 1..Len(Pairs) |-> RatioName(Pairs[k][1], Pairs[k][2])]

\* the ratio with epsilon added to both operands
PairRatio_shifted(df, col_a, col_b) ==
  FDiv(FAdd(Get(df, col_a), epsilon), FAdd(Get(df, col_b), epsilon))

\* the ratio without epsilon in the denominator
PairRatio_bare(df, col_a, col_b) == FDiv(Get(df, col_a), Get(df, col_b))

\* df_processed[col_a] / (df_processed[col_b] + epsilon)
PairRatio(df, col_a, col_b) == FDiv(Get(df, col_a), FAdd(Get(df, col_b), epsilon))

\* new_features with an absent operand read as 0
RatioFeatures_defaulted(df) ==
  LET get(c) == IF HasCol(df, c) THEN Get(df, c) ELSE I(0)
  IN  FromAssignments(PairNames,
        [k \in 1..Len(Pairs) |-> FDiv(get(Pairs[k][1]), FAdd(get(Pairs[k][2]), epsilon))])

\* new_features: the ratio of every pair whose two columns the frame has
RatioFeatures(df) ==
  LET ks == SelectSeq([k \in 1..Len(Pairs) |-> k],
                      LAMBDA k : HasCol(df, Pairs[k][1]) /\ HasCol(df, Pairs[k][2]))
  IN  FromAssignments([m \in 1..Len(ks) |-> PairNames[ks[m]]],
                      [m \in 1..Len(ks) |-> PairRatio(df, Pairs[ks[m]][1], Pairs[ks[m]][2])])

\* pd.concat([a, b], axis=1)
Concat(a, b) == [cols |-> a.cols \o b.cols, vals |-> a.vals \o b.vals]

\* no replacement of the non-finite values
Sanitize_none(v) == v

\* .replace([np.inf, -np.inf], 0).fillna(0) on one value
Sanitize(v) == IF IsFinite(v) THEN v ELSE I(0)

feature_expansion(df_base) ==
  LET df_final == Concat(df_base, RatioFeatures(df_base))
  IN  [cols |-> df_final.cols,
       vals |-> [i \in 1..Len(df_final.cols) |-> Sanitize(df_final.vals[i])]]

\* df[names]: the named columns in the order named
Reindex(df, names) == [cols |-> names, vals |-> [i \in 1..Len(names) |-> Get(df, names[i])]]

\* feature_selection that keeps only the selected columns the frame has
feature_selection_skip(df_expanded) ==
  LET names == SelectSeq(SELECTED_FEATURES, LAMBDA c : HasCol(df_expanded, c))
  IN  Reindex(df_expanded, names)

\* the loop assigns every selected name, from the frame or 0.0; the result
\* is read back in the order of SELECTED_FEATURES
feature_selection(df_expanded) ==
  LET df_final ==
        FromAssignments(SELECTED_FEATURES,
          [i \in 1..Len(SELECTED_FEATURES) |->
             IF HasCol(df_expanded, SELECTED_FEATURES[i])
             THEN Get(df_expanded, SELECTED_FEATURES[i]) ELSE I(0)])
  IN  Reindex(df_final, SELECTED_FEATURES)

(***************************************************************************)
(* The extractor, expansion, selection and threshold of the second         *)
(* variant, temporal.py, translated from its own text                      *)
(***************************************************************************)
\* temporal.py's BASE_FEATURES_LIST
BASE_FEATURES_LIST_temporal ==
  << "tarjetas_credito_count", "zona_premium_count", "engagement_score",
     "impuestos_obligaciones_count", "credito_formal", "servicios_publicos_count",
     "prepago_count", "casas_empeno_count", "pospago_vs_prepago", "emergencia_medica_count",
     "mensajes_positivos_count", "vulnerabilidad_financiera", "educacion_count",
     "pensiones_cesantias_count", "ratio_aprobaciones_rechazos" >>

\* temporal.py's SELECTED_FEATURES
SELECTED_FEATURES_temporal ==
  << "message_count", "nivel_transaccional", "engagement_score", "score_riesgo",
     "R_tarjetas_credito_count_vs_ratio_aprobaciones_rechazos",
     "R_zona_premium_count_vs_servicios_publicos_count",
     "R_zona_premium_count_vs_mensajes_positivos_count",
     "R_zona_premium_count_vs_vulnerabilidad_financiera",
     "R_engagement_score_vs_impuestos_obligaciones_count",
     "R_credito_formal_vs_tarjetas_credito_count",
     "R_credito_formal_vs_ratio_aprobaciones_rechazos",
     "R_servicios_publicos_count_vs_tarjetas_credito_count",
     "R_casas_empeno_count_vs_credito_formal",
     "R_emergencia_medica_count_vs_mensajes_positivos_count",
     "R_emergencia_medica_count_vs_ratio_aprobaciones_rechazos",
     "R_vulnerabilidad_financiera_vs_credito_formal", "R_educacion_count_vs_credito_formal",
     "R_educacion_count_vs_mensajes_positivos_count",
     "R_educacion_count_vs_pensiones_cesantias_count",
     "R_ratio_aprobaciones_rechazos_vs_credito_formal" >>

\* the body signals of temporal.py's extract_all_variables, in source order
BodySignals_temporal ==
  <<
    [name |-> "nequi_count", kind |-> "lit", alts |-> <<"nequi">>],
    [name |-> "bancolombia_count", kind |-> "lit", alts |-> <<"bancolombia">>],
    [name |-> "davivienda_count", kind |-> "lit", alts |-> <<"davivienda">>],
    [name |-> "cotizante_count", kind |-> "lit", alts |-> <<"cotizante">>],
    [name |-> "impuesto_count", kind |-> "lit", alts |-> <<"dian", "impuesto">>],
    [name |-> "prepago_count", kind |-> "lit", alts |-> <<"recarga", "prepago">>],
    [name |-> "nomina_count", kind |-> "lit", alts |-> <<"nomina", "proveedor", "salario">>],
    [name |-> "educacion_count", kind |-> "lit", alts |-> <<"escolar", "matricula", "universidad", "colegio">>],
    [name |-> "servicios_publicos_count", kind |-> "lit", alts |-> <<"epm", "codensa", "gas natural", "acueducto">>],
    [name |-> "salud_seguros_count", kind |-> "lit", alts |-> <<"eps", "sura", "sanitas", "compensar">>],
    [name |-> "ingresos_count", kind |-> "lit", alts |-> <<"consignacion", "deposito", "transferencia recibida">>],
    [name |-> "gastos_count", kind |-> "lit", alts |-> <<"compra", "retiro", "pago realizado", "debito">>],
    [name |-> "saldo_bajo_count", kind |-> "lit", alts |-> <<"saldo insuficiente", "sin saldo">>],
    [name |-> "cobranza_count", kind |-> "lit", alts |-> <<"cobranza", "cobro", "juridico", "multa">>],
    [name |-> "mora_count", kind |-> "lit", alts |-> <<"vencido", "mora", "atrasado", "pendiente">>],
    [name |-> "aprobaciones_count", kind |-> "lit", alts |-> <<"preaprobado", "aprobado", "cupo disponible">>],
    [name |-> "rechazos_count", kind |-> "lit", alts |-> <<"rechazado", "negado", "no aprobado">>],
    [name |-> "montos_count", kind |-> "montos", alts |-> <<"pesos", "cop">>],
    [name |-> "otp_count", kind |-> "otp", alts |-> <<"codigo", "clave", "otp", "token">>],
    [name |-> "transporte_count", kind |-> "lit", alts |-> <<"transmilenio", "sitp", "taxi", "beat", "uber">>],
    [name |-> "inversiones_count", kind |-> "lit", alts |-> <<"cdt", "inversion", "rentabilidad">>],
    [name |-> "credito_grande_count", kind |-> "lit", alts |-> <<"hipoteca", "credito vehiculo", "leasing">>],
    [name |-> "pensiones_cesantias_count", kind |-> "lit", alts |-> <<"colpensiones", "porvenir", "proteccion">>],
    [name |-> "arriendos_count", kind |-> "lit", alts |-> <<"arriendo", "arrendamiento", "canon">>],
    [name |-> "cooperativas_count", kind |-> "lit", alts |-> <<"cooperativa", "coomeva", "copetran">>],
    [name |-> "casas_empeno_count", kind |-> "lit", alts |-> <<"prenda", "empeño", "gota a gota">>],
    [name |-> "corresponsales_count", kind |-> "lit", alts |-> <<"baloto", "via baloto", "corresponsal">>],
    [name |-> "subsidios_count", kind |-> "lit", alts |-> <<"familias en accion", "jovenes en accion", "subsidio">>],
    [name |-> "tarjetas_credito_count", kind |-> "lit", alts |-> <<"visa", "mastercard", "american express">>],
    [name |-> "ahorro_inversion_count", kind |-> "lit", alts |-> <<"ahorro programado", "cdt virtual">>],
    [name |-> "pago_puntual_count", kind |-> "lit", alts |-> <<"pago exitoso", "pago confirmado">>],
    [name |-> "fidelizacion_count", kind |-> "lit", alts |-> <<"felicitaciones", "premio", "beneficio">>],
    [name |-> "microcreditos_count", kind |-> "lit", alts |-> <<"microcredito", "credito de consumo">>],
    [name |-> "compras_credito_count", kind |-> "lit", alts |-> <<"cuotas sin interes", "financiacion">>],
    [name |-> "mensajeria_count", kind |-> "lit", alts |-> <<"domicilio", "mensajeria", "envio">>],
    [name |-> "gasolina_peajes_count", kind |-> "lit", alts |-> <<"gasolina", "estacion de servicio", "peaje">>],
    [name |-> "medicina_prepagada_count", kind |-> "lit", alts |-> <<"colsanitas", "medisanitas", "colmedica">>],
    [name |-> "gimnasios_count", kind |-> "lit", alts |-> <<"gimnasio", "bodytech", "smartfit">>],
    [name |-> "viajes_count", kind |-> "lit", alts |-> <<"avianca", "latam", "viva air", "despegar">>],
    [name |-> "seguros_varios_count", kind |-> "lit", alts |-> <<"seguro de vida", "soat", "seguro todo riesgo">>],
    [name |-> "impuestos_obligaciones_count", kind |-> "lit", alts |-> <<"predial", "vehiculo", "renta", "retencion">>],
    [name |-> "restaurantes_count", kind |-> "lit", alts |-> <<"restaurante", "cine", "teatro">>],
    [name |-> "groserias_count", kind |-> "lit", alts |-> <<"hp", "hijueputa", "malparido">>],
    [name |-> "apuestas_count", kind |-> "lit", alts |-> <<"apuesta", "betplay", "wplay">>],
    [name |-> "alcohol_count", kind |-> "lit", alts |-> <<"cerveza", "aguardiente", "ron">>],
    [name |-> "comida_rapida_count", kind |-> "lit", alts |-> <<"dominos", "papa johns", "burger king">>],
    [name |-> "emergencia_medica_count", kind |-> "lit", alts |-> <<"emergencia", "urgencia medica">>],
    [name |-> "economia_informal_count", kind |-> "lit", alts |-> <<"rebusque", "camello", "chambita">>],
    [name |-> "efectivo_count", kind |-> "lit", alts |-> <<"efectivo", "cash", "plata en mano">>],
    [name |-> "ventas_catalogo_count", kind |-> "lit", alts |-> <<"yanbal", "avon", "natura">>],
    [name |-> "familia_count", kind |-> "lit", alts |-> <<"hijo", "hija", "bebe", "esposa">>],
    [name |-> "deportes_premium_count", kind |-> "lit", alts |-> <<"golf", "tenis", "equitacion">>],
    [name |-> "transporte_particular_count", kind |-> "lit", alts |-> <<"carro propio", "vehiculo particular">>],
    [name |-> "educacion_privada_count", kind |-> "lit", alts |-> <<"colegio privado", "universidad privada">>],
    [name |-> "zona_premium_count", kind |-> "lit", alts |-> <<"chicó", "rosales", "virrey">>],
    [name |-> "marcas_lujo_count", kind |-> "lit", alts |-> <<"apple", "iphone", "samsung galaxy">>],
    [name |-> "prestamos_conocidos_count", kind |-> "lit", alts |-> <<"prestame", "me prestas", "favor presta">>],
    [name |-> "busqueda_empleo_count", kind |-> "lit", alts |-> <<"vacante", "empleo", "trabajo">>],
    [name |-> "cancelaciones_count", kind |-> "lit", alts |-> <<"cancelar pedido", "devolucion">>],
    [name |-> "mensajes_positivos_count", kind |-> "lit", alts |-> <<"gracias", "agradezco", "excelente servicio">>],
    [name |-> "horarios_sospechosos_count", kind |-> "horarios", alts |-> <<"madrugada">>],
    [name |-> "ciudades_principales_count", kind |-> "lit", alts |-> <<"bogota", "medellin", "cali">>],
    [name |-> "productos_financieros_col_count", kind |-> "lit", alts |-> <<"ahorro a la mano", "cuenta amiga">>],
    [name |-> "comercios_populares_count", kind |-> "lit", alts |-> <<"tiendas d1", "justo y bueno", "ara">>],
    [name |-> "informalidad_laboral_count", kind |-> "lit", alts |-> <<"vendedor ambulante", "reciclador">>],
    [name |-> "negociacion_regateo_count", kind |-> "lit", alts |-> <<"rebaja", "descuento", "negociar">>],
    [name |-> "problemas_climaticos_count", kind |-> "lit", alts |-> <<"inundacion", "derrumbe">>],
    [name |-> "actividades_agro_count", kind |-> "lit", alts |-> <<"cosecha", "siembra", "ganado">>],
    [name |-> "internet_conectividad_count", kind |-> "lit", alts |-> <<"wifi", "internet", "datos moviles">>],
    [name |-> "violencia_inseguridad_count", kind |-> "lit", alts |-> <<"robo", "atraco", "inseguridad">>],
    [name |-> "actividades_comunitarias_count", kind |-> "lit", alts |-> <<"junta de accion", "reunion vecinos">>],
    [name |-> "otros_bancos_count", kind |-> "lit", alts |-> <<"bbva", "colpatria", "caja social">>],
    [name |-> "billeteras_count", kind |-> "lit", alts |-> <<"daviplata", "movii", "dale">>],
    [name |-> "ecommerce_count", kind |-> "lit", alts |-> <<"mercadolibre", "amazon", "netflix">>],
    [name |-> "retail_count", kind |-> "lit", alts |-> <<"exito", "carulla", "jumbo", "d1">>],
    [name |-> "fintech_count", kind |-> "lit", alts |-> <<"dineroya", "rapicredit">>],
    [name |-> "telco_count", kind |-> "lit", alts |-> <<"claro", "movistar", "tigo">>],
    [name |-> "geeks_count", kind |-> "lit", alts |-> <<"uber", "rappi", "cabify">>]
  >>

\* _convert_to_dataframe: the body and address of every row
convert_to_dataframe_temporal(sms_data) ==
  [i \in 1..Len(sms_data) |->
     [body    |-> IF "body" \in Columns(sms_data) THEN Cell(sms_data[i], "body")
                  ELSE DfGet(sms_data, i, "content", DfGet(sms_data, i, "message", "")),
      address |-> IF "address" \in Columns(sms_data) THEN Cell(sms_data[i], "address")
                  ELSE DfGet(sms_data, i, "sender", DfGet(sms_data, i, "from", "unknown"))]]

\* the keys extract_all_variables assigns, in order
RawCols_temporal ==
  <<"message_count">> \o [k \in 1..Len(BodySignals_temporal) |-> BodySignals_temporal[k].name]
  \o <<"pospago_vs_prepago", "address_count", "pishing_count", "email_count", "whatsapp_count">>

\* the raw variables of extract_all_variables_temporal for a non-empty frame
RawVariables_temporal(df) ==
  LET n     == Len(df)
      lbody == [i \in 1..n |-> Lower(df[i].body)] \o <<>>
      laddr == [i \in 1..n |-> Lower(df[i].address)] \o <<>>
      hits  == [k \in 1..Len(BodySignals_temporal) |->
                  I(CountRows(n, LAMBDA i : SignalMatch(BodySignals_temporal[k], lbody[i])))]
      pospago_vs_prepago ==
        CountRows(n, LAMBDA i : Contains(lbody[i], "pospago"))
        - CountRows(n, LAMBDA i : Contains(lbody[i], "prepago"))
      address_count  == Cardinality({df[i].address : i \in 1..n})
      pishing_count  == CountRows(n, LAMBDA i : CountDigits(df[i].address) >= 10)
      email_count    == CountRows(n, LAMBDA i : Contains(df[i].address, "@"))
      whatsapp_count == CountRows(n, LAMBDA i : WhatsappMatch(laddr[i]))
  IN  [cols |-> RawCols_temporal,
       vals |-> <<I(n)>> \o hits
                \o <<I(pospago_vs_prepago), I(address_count), I(pishing_count),
                     I(email_count), I(whatsapp_count)>>]

\* the keys _calculate_derived_variables assigns, in order
DerivedCols_temporal ==
  << "ratio_ingresos_gastos", "ratio_aprobaciones_rechazos", "tiene_nomina",
     "tiene_servicios_publicos", "tiene_salud", "alertas_riesgo", "nivel_transaccional",
     "diversificacion_financiera", "engagement_score", "estabilidad_laboral",
     "obligaciones_fijas", "estres_financiero", "buen_comportamiento_pago", "credito_formal",
     "ratio_credito_formal_informal", "gastos_discrecionales", "prevision_financiera",
     "cumplimiento_tributario", "inclusion_financiera", "ratio_obligaciones_ingresos",
     "score_riesgo", "estabilidad_emocional", "riesgo_comportamental", "nivel_socioeconomico",
     "presion_financiera", "formalidad_financiera", "score_confiabilidad",
     "vulnerabilidad_financiera", "informalidad_total", "vulnerabilidad_contextual",
     "modernizacion_financiera", "score_riesgo_final" >>

\* _calculate_derived_variables: the raw variables are integers (v), the
\* derived ones integers or quotients of integers
calculate_derived_variables_temporal(variables) ==
  LET v(k) == Get(variables, k).n
      nivel_transaccional == v("ingresos_count") + v("gastos_count") + v("montos_count")
      diversificacion_financiera ==
        Flag(v("nequi_count")) + Flag(v("bancolombia_count")) + Flag(v("davivienda_count"))
        + Flag(v("otros_bancos_count")) + Flag(v("billeteras_count"))
      engagement_score ==
        v("otp_count") * 2 + nivel_transaccional + diversificacion_financiera * 3
      estabilidad_laboral ==
        v("nomina_count") + v("pensiones_cesantias_count") + v("cooperativas_count")
      obligaciones_fijas ==
        v("arriendos_count") + v("servicios_publicos_count") + v("medicina_prepagada_count")
        + v("gimnasios_count")
      estres_financiero ==
        v("casas_empeno_count") + v("saldo_bajo_count") + v("mora_count") + v("cobranza_count")
        + v("rechazos_count")
      buen_comportamiento_pago ==
        v("pago_puntual_count") + v("fidelizacion_count") + v("aprobaciones_count")
      credito_formal ==
        v("tarjetas_credito_count") + v("microcreditos_count") + v("credito_grande_count")
      score_riesgo ==
        estres_financiero * 2 - buen_comportamiento_pago * 3 - estabilidad_laboral * 2
        + v("casas_empeno_count") * 5
      riesgo_comportamental ==
        v("groserias_count") + v("apuestas_count") + v("alcohol_count")
        + v("horarios_sospechosos_count") + v("prestamos_conocidos_count")
      nivel_socioeconomico ==
        v("zona_premium_count") + v("educacion_privada_count") + v("marcas_lujo_count")
        + v("deportes_premium_count") + v("transporte_particular_count")
        - v("economia_informal_count") - v("subsidios_count")
      presion_financiera ==
        v("prestamos_conocidos_count") + v("emergencia_medica_count") + v("busqueda_empleo_count")
        + v("economia_informal_count") + v("cancelaciones_count")
      score_confiabilidad ==
        v("mensajes_positivos_count") + v("pago_puntual_count") + v("fidelizacion_count")
        - v("groserias_count") - v("cancelaciones_count") - v("horarios_sospechosos_count")
      vulnerabilidad_financiera ==
        v("prestamos_conocidos_count") + v("casas_empeno_count") + v("emergencia_medica_count")
        + v("busqueda_empleo_count") + v("economia_informal_count") + v("ventas_catalogo_count")
      informalidad_total ==
        v("economia_informal_count") + v("informalidad_laboral_count") + v("efectivo_count")
        + v("negociacion_regateo_count") + v("ventas_catalogo_count")
      vulnerabilidad_contextual ==
        v("violencia_inseguridad_count") + v("problemas_climaticos_count")
        + v("actividades_comunitarias_count") + v("comercios_populares_count")
      modernizacion_financiera ==
        v("productos_financieros_col_count") + v("internet_conectividad_count") + v("otp_count")
        + v("billeteras_count") - v("efectivo_count")
      \* 0.3, 0.2, 0.15, 0.1, 0.15, 0.1, -0.25, -0.15, -0.1, in hundredths
      score_riesgo_final ==
        Q(score_riesgo * 30 + riesgo_comportamental * 20 + vulnerabilidad_financiera * 15
          + informalidad_total * 10 + presion_financiera * 15 + vulnerabilidad_contextual * 10
          - score_confiabilidad * 25 - modernizacion_financiera * 15 - nivel_socioeconomico * 10,
          100)
      value(c) ==
        CASE c = "ratio_ingresos_gastos" -> Q(v("ingresos_count"), v("gastos_count") + 1)
          [] c = "ratio_aprobaciones_rechazos" ->
               Q(v("aprobaciones_count"), v("rechazos_count") + 1)
          [] c = "tiene_nomina" -> I(Flag(v("nomina_count")))
          [] c = "tiene_servicios_publicos" -> I(Flag(v("servicios_publicos_count")))
          [] c = "tiene_salud" -> I(Flag(v("salud_seguros_count")))
          [] c = "alertas_riesgo" ->
               I(v("saldo_bajo_count") + v("mora_count") + v("cobranza_count")
                 + v("rechazos_count"))
          [] c = "nivel_transaccional" -> I(nivel_transaccional)
          [] c = "diversificacion_financiera" -> I(diversificacion_financiera)
          [] c = "engagement_score" -> I(engagement_score)
          [] c = "estabilidad_laboral" -> I(estabilidad_laboral)
          [] c = "obligaciones_fijas" -> I(obligaciones_fijas)
          [] c = "estres_financiero" -> I(estres_financiero)
          [] c = "buen_comportamiento_pago" -> I(buen_comportamiento_pago)
          [] c = "credito_formal" -> I(credito_formal)
          [] c = "ratio_credito_formal_informal" -> Q(credito_formal, v("casas_empeno_count") + 1)
          [] c = "gastos_discrecionales" ->
               I(v("viajes_count") + v("restaurantes_count") + v("gimnasios_count")
                 + v("ecommerce_count"))
          [] c = "prevision_financiera" ->
               I(v("seguros_varios_count") + v("ahorro_inversion_count")
                 + v("pensiones_cesantias_count") + v("inversiones_count"))
          [] c = "cumplimiento_tributario" ->
               I(v("impuesto_count") + v("impuestos_obligaciones_count"))
          [] c = "inclusion_financiera" ->
               I(diversificacion_financiera + Flag(v("subsidios_count"))
                 + Flag(v("cooperativas_count")) + Flag(v("ahorro_inversion_count")))
          [] c = "ratio_obligaciones_ingresos" ->
               Q(obligaciones_fijas, v("ingresos_count") + v("nomina_count") + 1)
          [] c = "score_riesgo" -> I(score_riesgo)
          [] c = "estabilidad_emocional" ->
               I(v("mensajes_positivos_count") - v("groserias_count") - v("alcohol_count")
                 - v("apuestas_count"))
          [] c = "riesgo_comportamental" -> I(riesgo_comportamental)
          [] c = "nivel_socioeconomico" -> I(nivel_socioeconomico)
          [] c = "presion_financiera" -> I(presion_financiera)
          [] c = "formalidad_financiera" ->
               I(v("pospago_vs_prepago") + Flag(v("transporte_particular_count"))
                 + Flag(v("educacion_privada_count")) - v("efectivo_count")
                 - v("economia_informal_count"))
          [] c = "score_confiabilidad" -> I(score_confiabilidad)
          [] c = "vulnerabilidad_financiera" -> I(vulnerabilidad_financiera)
          [] c = "informalidad_total" -> I(informalidad_total)
          [] c = "vulnerabilidad_contextual" -> I(vulnerabilidad_contextual)
          [] c = "modernizacion_financiera" -> I(modernizacion_financiera)
          [] c = "score_riesgo_final" -> score_riesgo_final
  IN  [cols |-> DerivedCols_temporal, vals |-> [i \in 1..Len(DerivedCols_temporal) |-> value(DerivedCols_temporal[i])]]

\* the ratio loop: one <name>_ratio per <name>_count, over total_count.  No
\* name it assigns ends in "_count", so every count it reads is the one it
\* started with.
RatioLoop_temporal(variables, count_cols) ==
  LET total  == Get(variables, "total_count").n
      names  == [i \in 1..Len(count_cols) |-> Replace(count_cols[i], "_count", "_ratio")] \o <<>>
      ratios == [i \in 1..Len(count_cols) |->
                   IF total > 0 THEN Q(Get(variables, count_cols[i]).n, total) ELSE I(0)]
  IN  Update(variables, FromAssignments(names, ratios))

\* _get_empty_variables
get_empty_variables_temporal ==
  [cols |-> BASE_FEATURES_LIST_temporal, vals |-> [i \in 1..Len(BASE_FEATURES_LIST_temporal) |-> I(0)]]

\* extract_all_variables_temporal on the frame of _convert_to_dataframe
extract_all_variables_temporal(df) ==
  IF Len(df) = 0 THEN get_empty_variables_temporal
  ELSE LET raw        == RawVariables_temporal(df)
           variables  == Update(raw, calculate_derived_variables_temporal(raw))
           count_cols == SelectSeq(variables.cols, LAMBDA col : EndsWith(col, "_count"))
           total      == SumCols(variables, count_cols, 1, Len(count_cols))
       IN  RatioLoop_temporal(SetCol(variables, "total_count", I(total)), count_cols)

\* michael: the one-row frame of the variables
michael(sms_logs) == extract_all_variables_temporal(convert_to_dataframe_temporal(sms_logs))

\* epsilon_temporal = 0.0001
epsilon_temporal == Q(1, 10000)

\* list(permutations(BASE_FEATURES_LIST_temporal, 2)): by first index, then second
Pairs_temporal ==
  LET n == Len(BASE_FEATURES_LIST_temporal)
  IN  [k \in 1..(n * (n - 1)) |->
         LET i == ((k - 1) \div (n - 1)) + 1
             r == ((k - 1) % (n - 1)) + 1
             j == IF r < i THEN r ELSE r + 1
         IN  <<BASE_FEATURES_LIST_temporal[i], BASE_FEATURES_LIST_temporal[j]>>]

\* f"R_{col_a}_vs_{col_b}"
RatioName_temporal(col_a, col_b) == "R_" \o col_a \o "_vs_" \o col_b

\* the generated names, in the order of the pairs
PairNames_temporal == [k \in 1..Len(Pairs_temporal) |-> RatioName_temporal(Pairs_temporal[k][1], Pairs_temporal[k][2])]

\* the ratio with the two columns exchanged
PairRatio_temporal_exchanged(df, col_a, col_b) ==
  FDiv(Get(df, col_b), FAdd(Get(df, col_a), epsilon_temporal))

\* df_processed[col_a] / (df_processed[col_b] + epsilon_temporal)
PairRatio_temporal(df, col_a, col_b) == FDiv(Get(df, col_a), FAdd(Get(df, col_b), epsilon_temporal))

\* new_features: the ratio of every pair whose two columns the frame has
RatioFeatures_temporal(df) ==
  LET ks == SelectSeq([k \in 1..Len(Pairs_temporal) |-> k],
                      LAMBDA k : HasCol(df, Pairs_temporal[k][1]) /\ HasCol(df, Pairs_temporal[k][2]))
  IN  FromAssignments([m \in 1..Len(ks) |-> PairNames_temporal[ks[m]]],
                      [m \in 1..Len(ks) |-> PairRatio_temporal(df, Pairs_temporal[ks[m]][1], Pairs_temporal[ks[m]][2])])

\* temporal.py's feature_expansion: the frame, its ratios, then replace and fillna
feature_expansion_temporal(df_base) ==
  LET df_final == Concat(df_base, RatioFeatures_temporal(df_base))
  IN  [cols |-> df_final.cols,
       vals |-> [i \in 1..Len(df_final.cols) |-> Sanitize(df_final.vals[i])]]

\* the loop assigns every selected name, from the frame or 0.0; the result
\* is read back in the order of SELECTED_FEATURES_temporal
feature_selection_temporal(df_expanded) ==
  LET df_final ==
        FromAssignments(SELECTED_FEATURES_temporal,
          [i \in 1..Len(SELECTED_FEATURES_temporal) |->
             IF HasCol(df_expanded, SELECTED_FEATURES_temporal[i])
             THEN Get(df_expanded, SELECTED_FEATURES_temporal[i]) ELSE I(0)])
  IN  Reindex(df_final, SELECTED_FEATURES_temporal)

\* THRESHOLD_temporal = 0.5090
THRESHOLD_temporal == Q(5090, 10000)

\* decision = "aprobado" if score < THRESHOLD_temporal else "rechazado"
Decide_temporal(p) == IF FLess(p, THRESHOLD_temporal) THEN "aprobado" ELSE "rechazado"

(***************************************************************************)
(* SMSService.get_sms_by_uuid_devices.  The answer of the table to the     *)
(* query of one device is [ok, items]: the query raised, or returned that  *)
(* many items.  The list all_sms is kept as its batches, [device, items]:  *)
(* the items of that query, in the order returned; its length is the sum   *)
(* of the batch sizes.                                                     *)
(***************************************************************************)
\* if len(all_sms) > 5000: break
SmsLimit == 5000

\* len(all_sms)
RECURSIVE SmsLen(_)
SmsLen(all_sms) ==
  IF all_sms = <<>> THEN 0 ELSE Head(all_sms).items + SmsLen(Tail(all_sms))

\* all_sms.extend(items)
SmsExtend(all_sms, device, items) ==
  IF items = 0 THEN all_sms ELSE Append(all_sms, [device |-> device, items |-> items])

\* the loop leaving at a total of 5000 or more
RECURSIVE SmsLoop_inclusive(_, _, _, _, _)
SmsLoop_inclusive(table, devices, i, all_sms, log) ==
  IF i > Len(devices) THEN [all_sms |-> all_sms, queries |-> log]
  ELSE LET response == table[devices[i]]
           queried  == Append(log, [device |-> devices[i], response |-> response])
           extended == SmsExtend(all_sms, devices[i], response.items)
       IN  IF ~response.ok THEN SmsLoop_inclusive(table, devices, i + 1, all_sms, queried)
           ELSE IF SmsLen(extended) >= SmsLimit
                THEN [all_sms |-> extended, queries |-> queried]
                ELSE SmsLoop_inclusive(table, devices, i + 1, extended, queried)

\* the loop over the devices from the i-th on: the query, extend, and the
\* break past 5000; a raising query is skipped (except Exception: continue).
\* log is the queries issued so far.
RECURSIVE SmsLoop(_, _, _, _, _)
SmsLoop(table, devices, i, all_sms, log) ==
  IF i > Len(devices) THEN [all_sms |-> all_sms, queries |-> log]
  ELSE LET response == table[devices[i]]
           queried  == Append(log, [device |-> devices[i], response |-> response])
           extended == SmsExtend(all_sms, devices[i], response.items)
       IN  IF ~response.ok THEN SmsLoop(table, devices, i + 1, all_sms, queried)
           ELSE IF SmsLen(extended) > SmsLimit
                THEN [all_sms |-> extended, queries |-> queried]
                ELSE SmsLoop(table, devices, i + 1, extended, queried)

\* get_sms_by_uuid_devices: [] without a table or without devices
get_sms_by_uuid_devices(has_table, table, devices) ==
  IF ~has_table \/ devices = <<>> THEN [all_sms |-> <<>>, queries |-> <<>>]
  ELSE SmsLoop(table, devices, 1, <<>>, <<>>)

(***************************************************************************)
(* The service: lifespan and run_debito_check                              *)
(***************************************************************************)
VARIABLES
  pc,           \* where the handler is: "boot", "idle", a step of run_debito_check, "done"
  model,        \* app.state.model: "loaded" or "none"
  db,           \* app.state.db (Firestore): "active" or "none"
  dynamodb,     \* app.state.dynamodb: "active" or "none"
  publisher,    \* app.state.publisher: "ready" or "none"
  user_id,      \* metadata.get('userId'), "" before it is read
  uuid_devices, \* the user's devices
  sms_logs,     \* the messages fetched for the request
  extractor_df, \* SMSVariableExtractor.df: the body and address of every row
  df_base,      \* mensajes(sms_logs, user_id)
  df_expanded,  \* feature_expansion(df_base)
  df_final,     \* feature_selection(df_expanded)
  score,        \* the classifier's class-1 probability
  decision,     \* "aprobado", "rechazado", or "" before the decision
  status,       \* the HTTP status of the response, 0 while the request runs
  queries,      \* the collaborators queried by the request so far, in order
  published,    \* the messages handed to Pub/Sub by the request
  peer          \* the locals of a second request, while this one runs

vars ==
  <<pc, model, db, dynamodb, publisher, user_id, uuid_devices, sms_logs, extractor_df,
    df_base, df_expanded, df_final, score, decision, status, queries, published, peer>>

\* the locals of one run_debito_check call
locals ==
  <<pc, user_id, uuid_devices, sms_logs, extractor_df, df_base, df_expanded, df_final,
    score, decision, status, queries, published>>

appState == <<model, db, dynamodb, publisher>>

\* The SMS a device table can hold in the model.
MsgPool ==
  << [body |-> "Aprobado tu credito Visa", address |-> "BANCOLOMBIA"],
     [body |-> "Credito rechazado por mora. Recarga tu prepago", address |-> "3001234567"],
     [body |-> "Deposito de nomina. Pago exitoso de $50.000 por compra en tu plan pospago, gracias",
      address |-> "info@claro.com"],
     [content |-> "Tu codigo OTP es 4821. Nequi: compra por $20.000",
      sender |-> "wa.me/573001234567"],
     [body |-> "Urgencia medica en Rosales: pague predial, colegio y acueducto",
      address |-> "BANCOLOMBIA"],
     [message |-> "Colpensiones informa: beneficio por su prenda en casa de empeño"],
     [uuidDevice |-> "d1"] >>

\* every log of at most MaxMsgs pool messages
MsgSeqs ==
  UNION {[1..n -> 1..Len(MsgPool)] : n \in 0..MaxMsgs}

LogOf(ix) == [i \in 1..Len(ix) |-> MsgPool[ix[i]]]

\* THRESHOLD = 0.5090
THRESHOLD == Q(5090, 10000)

\* the probabilities the classifier returns in the model, in ten-thousandths
Probs == {Q(p, 10000) : p \in {0, 2500, 5089, 5090, 5091, 10000}}

NoScore == Q(-1, 1)

\* the locals of a call that has not started
NoRequest ==
  <<"idle", "", <<>>, <<>>, <<>>, EmptyDf, EmptyDf, EmptyDf, NoScore, "", 0, <<>>, <<>>>>

\* the decision with the comparison score <= THRESHOLD
Decide_inclusive(p) == IF FLess(p, THRESHOLD) \/ p = THRESHOLD THEN "aprobado" ELSE "rechazado"

\* decision = "aprobado" if score < THRESHOLD else "rechazado"
Decide(p) == IF FLess(p, THRESHOLD) THEN "aprobado" ELSE "rechazado"

Init ==
  /\ pc = "boot"
  /\ model = "none" /\ db = "none" /\ dynamodb = "none" /\ publisher = "none"
  /\ user_id = "" /\ uuid_devices = <<>> /\ sms_logs = <<>> /\ extractor_df = <<>>
  /\ peer = NoRequest
  /\ df_base = EmptyDf /\ df_expanded = EmptyDf /\ df_final = EmptyDf
  /\ score = NoScore /\ decision = "" /\ status = 0
  /\ queries = <<>> /\ published = <<>>

\* lifespan: each client is set up or, when its set-up raises, left None
Lifespan ==
  /\ pc = "boot"
  /\ model' \in {"loaded", "none"}
  /\ db' \in {"active", "none"}
  /\ dynamodb' \in {"active", "none"}
  /\ publisher' \in {"ready", "none"}
  /\ pc' = "idle"
  /\ UNCHANGED <<user_id, uuid_devices, sms_logs, df_base, df_expanded, df_final, score,
                 decision, status, queries, published>>
  /\ UNCHANGED <<extractor_df, peer>>

\* run_debito_check without the model check
Receive_unchecked ==
  /\ pc = "idle"
  /\ pc' = "metadata" /\ status' = 0
  /\ UNCHANGED <<appState, user_id, uuid_devices, sms_logs, df_base, df_expanded, df_final,
                 score, decision, queries, published>>
  /\ UNCHANGED <<extractor_df, peer>>

\* run_debito_check up to the model check: without a model, HTTP 500
Receive ==
  /\ pc = "idle"
  /\ IF model = "none"
     THEN pc' = "done" /\ status' = 500
     ELSE pc' = "metadata" /\ status' = 0
  /\ UNCHANGED <<appState, user_id, uuid_devices, sms_logs, df_base, df_expanded, df_final,
                 score, decision, queries, published>>
  /\ UNCHANGED <<extractor_df, peer>>

\* 1. Metadata with the HTTP 404 caught by the general handler (HTTP 500)
FetchMetadata_converted ==
  /\ pc = "metadata"
  /\ IF db = "none"
     THEN /\ pc' = "done" /\ status' = 500
          /\ UNCHANGED <<user_id, queries>>
     ELSE /\ queries' = Append(queries, "metadata")
          /\ \E found \in {"none", "no_user", "u1"} :
               IF found \in {"none", "no_user"}
               THEN pc' = "done" /\ status' = 500 /\ UNCHANGED user_id
               ELSE pc' = "devices" /\ user_id' = found /\ UNCHANGED status
  /\ UNCHANGED <<appState, uuid_devices, sms_logs, df_base, df_expanded, df_final, score,
                 decision, published>>
  /\ UNCHANGED <<extractor_df, peer>>

\* 1. Metadata: get_firestore_metadata raises without Firestore (HTTP 500);
\* a credit that is not found, or has no userId, is HTTP 404
FetchMetadata ==
  /\ pc = "metadata"
  /\ IF db = "none"
     THEN /\ pc' = "done" /\ status' = 500
          /\ UNCHANGED <<user_id, queries>>
     ELSE /\ queries' = Append(queries, "metadata")
          /\ \E found \in {"none", "no_user", "u1"} :
               IF found \in {"none", "no_user"}
               THEN pc' = "done" /\ status' = 404 /\ UNCHANGED user_id
               ELSE pc' = "devices" /\ user_id' = found /\ UNCHANGED status
  /\ UNCHANGED <<appState, uuid_devices, sms_logs, df_base, df_expanded, df_final, score,
                 decision, published>>
  /\ UNCHANGED <<extractor_df, peer>>

\* 2. Devices: get_uuid_devices_by_user_id, [] without a table or on error
FetchDevices ==
  /\ pc = "devices"
  /\ IF dynamodb = "none"
     THEN uuid_devices' = <<>> /\ UNCHANGED queries
     ELSE /\ queries' = Append(queries, "devices")
          /\ uuid_devices' \in {<<>>, <<"d1">>}
  /\ pc' = "sms"
  /\ UNCHANGED <<appState, user_id, sms_logs, df_base, df_expanded, df_final, score,
                 decision, status, published>>
  /\ UNCHANGED <<extractor_df, peer>>

\* 3. SMS: get_sms_by_uuid_devices, [] without a table or without devices
FetchSms ==
  /\ pc = "sms"
  /\ IF dynamodb = "none" \/ uuid_devices = <<>>
     THEN sms_logs' = <<>> /\ UNCHANGED queries
     ELSE /\ queries' = Append(queries, "sms")
          /\ \E ix \in MsgSeqs : sms_logs' = LogOf(ix)
  /\ pc' = "extract"
  /\ UNCHANGED <<appState, user_id, uuid_devices, df_base, df_expanded, df_final, score,
                 decision, status, published>>
  /\ UNCHANGED <<extractor_df, peer>>

\* 4. Extract with the extractor kept in a module-level slot that the first
\* request to build it fills and every later request reuses
Extract_shared_extractor ==
  /\ pc = "extract"
  /\ extractor_df' = IF peer[5] # <<>> THEN peer[5] ELSE convert_to_dataframe(sms_logs)
  /\ pc' = "expand" /\ df_base' = extract_all_variables(extractor_df')
  /\ UNCHANGED <<appState, user_id, uuid_devices, sms_logs, df_expanded, df_final, score,
                 decision, status, queries, published>>
  /\ UNCHANGED peer

\* 4. Extract: an exception of the extractor is caught at line 525 (HTTP 500)
Extract ==
  /\ pc = "extract"
  /\ extractor_df' = convert_to_dataframe(sms_logs)
  /\ IF ExtractRaises(extractor_df')
     THEN pc' = "done" /\ status' = 500 /\ UNCHANGED df_base
     ELSE pc' = "expand" /\ df_base' = mensajes(sms_logs) /\ UNCHANGED status
  /\ UNCHANGED <<appState, user_id, uuid_devices, sms_logs, df_expanded, df_final, score,
                 decision, queries, published>>
  /\ UNCHANGED peer

\* 5. Expand
Expand ==
  /\ pc = "expand"
  /\ df_expanded' = feature_expansion(df_base)
  /\ pc' = "select"
  /\ UNCHANGED <<appState, user_id, uuid_devices, sms_logs, df_base, df_final, score,
                 decision, status, queries, published>>
  /\ UNCHANGED <<extractor_df, peer>>

\* 6. Select
Select ==
  /\ pc = "select"
  /\ df_final' = feature_selection(df_expanded)
  /\ pc' = "predict"
  /\ UNCHANGED <<appState, user_id, uuid_devices, sms_logs, df_base, df_expanded, score,
                 decision, status, queries, published>>
  /\ UNCHANGED <<extractor_df, peer>>

\* 7. Predict: predict_proba returns a probability, or raises (HTTP 500)
Predict ==
  /\ pc = "predict"
  /\ \/ \E p \in Probs :
          /\ score' = p
          /\ decision' = Decide(p)
          /\ pc' = "publish"
          /\ UNCHANGED status
     \/ /\ pc' = "done" /\ status' = 500
        /\ UNCHANGED <<score, decision>>
  /\ UNCHANGED <<appState, user_id, uuid_devices, sms_logs, df_base, df_expanded, df_final,
                 queries, published>>
  /\ UNCHANGED <<extractor_df, peer>>

\* the result dict of run_debito_check
Result ==
  [credit_uid |-> "uid", user_id |-> user_id, device_count |-> Len(uuid_devices),
   sms_count |-> Len(sms_logs), fraud_probability |-> score, decision |-> decision,
   threshold |-> THRESHOLD, features_used |-> df_final]

\* 8. Publish with a failed publish raised to the handler (HTTP 500)
Publish_raising ==
  /\ pc = "publish"
  /\ IF publisher = "none"
     THEN pc' = "done" /\ status' = 200 /\ UNCHANGED <<published, queries>>
     ELSE /\ queries' = Append(queries, "publish")
          /\ \E ok \in BOOLEAN :
               IF ok
               THEN published' = Append(published, Result) /\ pc' = "done" /\ status' = 200
               ELSE UNCHANGED published /\ pc' = "done" /\ status' = 500
  /\ UNCHANGED <<appState, user_id, uuid_devices, sms_logs, df_base, df_expanded, df_final,
                 score, decision>>
  /\ UNCHANGED <<extractor_df, peer>>

\* 8. Publish: without a publisher the call is skipped; with one, the publish
\* is attempted once and publish_df_to_pubsub swallows its failure.  Then the
\* result is returned.
Publish ==
  /\ pc = "publish"
  /\ IF publisher = "none"
     THEN UNCHANGED <<published, queries>>
     ELSE /\ queries' = Append(queries, "publish")
          /\ \E ok \in BOOLEAN :
               published' = IF ok THEN Append(published, Result) ELSE published
  /\ pc' = "done" /\ status' = 200
  /\ UNCHANGED <<appState, user_id, uuid_devices, sms_logs, df_base, df_expanded, df_final,
                 score, decision>>
  /\ UNCHANGED <<extractor_df, peer>>

\* the response is sent; the next request starts from a clean handler
Finish ==
  /\ pc = "done"
  /\ pc' = "idle"
  /\ user_id' = "" /\ uuid_devices' = <<>> /\ sms_logs' = <<>>
  /\ extractor_df' = <<>>
  /\ df_base' = EmptyDf /\ df_expanded' = EmptyDf /\ df_final' = EmptyDf
  /\ score' = NoScore /\ decision' = "" /\ status' = 0
  /\ queries' = <<>> /\ published' = <<>>
  /\ UNCHANGED appState
  /\ UNCHANGED peer

Next ==
  \/ Lifespan
  \/ Receive
  \/ FetchMetadata
  \/ FetchDevices
  \/ FetchSms
  \/ Extract
  \/ Expand
  \/ Select
  \/ Predict
  \/ Publish
  \/ Finish

Spec == Init /\ [][Next]_vars

(***************************************************************************)
(* Two concurrent requests.  run_debito_check is a plain def, which the    *)
(* framework runs on a pool of threads: the locals of the thread that is   *)
(* not running are held in peer, and Switch hands the processor over.      *)
(* Both requests have fetched their logs; app.state is what lifespan left. *)
(***************************************************************************)
\* the logs of the two requests: empty, or one message of the first
\* ConcPool messages of the pool
ConcLogs == {<<>>} \cup {LogOf(<<k>>) : k \in 1..ConcPool}

\* the locals of a request that has fetched log
Fetched(log) ==
  <<"extract", "u1", <<"d1">>, log, <<>>, EmptyDf, EmptyDf, EmptyDf, NoScore, "", 0,
    <<"metadata", "devices", "sms">>, <<>>>>

InitConc ==
  /\ model = "loaded" /\ db = "active" /\ dynamodb = "active" /\ publisher = "ready"
  /\ pc = "extract" /\ user_id = "u1" /\ uuid_devices = <<"d1">>
  /\ sms_logs \in ConcLogs /\ extractor_df = <<>>
  /\ df_base = EmptyDf /\ df_expanded = EmptyDf /\ df_final = EmptyDf
  /\ score = NoScore /\ decision = "" /\ status = 0
  /\ queries = <<"metadata", "devices", "sms">> /\ published = <<>>
  /\ \E log \in ConcLogs : peer = Fetched(log)

\* the scheduler suspends the running request and resumes the other one
Switch ==
  /\ peer' = locals
  /\ pc' = peer[1] /\ user_id' = peer[2] /\ uuid_devices' = peer[3]
  /\ sms_logs' = peer[4] /\ extractor_df' = peer[5] /\ df_base' = peer[6]
  /\ df_expanded' = peer[7] /\ df_final' = peer[8] /\ score' = peer[9]
  /\ decision' = peer[10] /\ status' = peer[11] /\ queries' = peer[12]
  /\ published' = peer[13]
  /\ UNCHANGED appState

NextConc ==
  \/ Switch
  \/ Extract
  \/ Expand
  \/ Select
  \/ Predict
  \/ Publish

SpecConc == InitConc /\ [][NextConc]_vars

(***************************************************************************)
(* feature_expansion and feature_selection on any record: the frame is     *)
(* drawn, then expanded and selected by the same two steps                 *)
(***************************************************************************)
\* the columns a drawn frame may hold: the base features, the other selected
\* columns and one column nothing reads
FnCols ==
  BASE_FEATURES_LIST \o <<"message_count", "nivel_transaccional", "score_riesgo", "total_count">>

\* the values a drawn column may hold: small integers of either sign, the one
\* value that cancels epsilon, and the non-finite floats
FnValues == {I(k) : k \in (-MaxVal)..MaxVal} \cup {Q(-1, 10000), PInf, NInf, NaN}

\* a drawn frame: every column holds v0 but c1, which holds v1; the columns
\* of absent are missing
FnFrame(v0, c1, v1, absent) ==
  LET cols == SelectSeq(FnCols, LAMBDA c : c \notin absent)
  IN  [cols |-> cols, vals |-> [i \in 1..Len(cols) |-> IF cols[i] = c1 THEN v1 ELSE v0]]

InitFn ==
  /\ pc = "expand"
  /\ model = "loaded" /\ db = "none" /\ dynamodb = "none" /\ publisher = "none"
  /\ user_id = "" /\ uuid_devices = <<>> /\ sms_logs = <<>> /\ extractor_df = <<>>
  /\ peer = NoRequest
  /\ \/ \E v0 \in FnValues, v1 \in FnValues, c1 \in Range(FnCols) :
          df_base = FnFrame(v0, c1, v1, {})
     \/ \E v0 \in FnValues, a \in Range(FnCols), b \in Range(FnCols) :
          df_base = FnFrame(v0, a, v0, {a, b})
  /\ df_expanded = EmptyDf /\ df_final = EmptyDf
  /\ score = NoScore /\ decision = "" /\ status = 0
  /\ queries = <<>> /\ published = <<>>

NextFn ==
  \/ Expand
  \/ Select

SpecFn == InitFn /\ [][NextFn]_vars

(***************************************************************************)
(* The handler of the second variant, temporal.py: the same steps, ending  *)
(* at the returned result (it has no publisher).  The request has fetched  *)
(* its log.                                                                *)
(***************************************************************************)
InitTemporal ==
  /\ pc = "extract"
  /\ model = "loaded" /\ db = "active" /\ dynamodb = "active" /\ publisher = "none"
  /\ user_id = "u1" /\ uuid_devices = <<"d1">>
  /\ \E ix \in MsgSeqs : sms_logs = LogOf(ix)
  /\ extractor_df = <<>>
  /\ peer = NoRequest
  /\ df_base = EmptyDf /\ df_expanded = EmptyDf /\ df_final = EmptyDf
  /\ score = NoScore /\ decision = "" /\ status = 0
  /\ queries = <<"metadata", "devices", "sms">> /\ published = <<>>

\* 4. Extract (Michael): an exception of the extractor is HTTP 500
Michael ==
  /\ pc = "extract"
  /\ extractor_df' = convert_to_dataframe_temporal(sms_logs)
  /\ IF ExtractRaises(extractor_df')
     THEN pc' = "done" /\ status' = 500 /\ UNCHANGED df_base
     ELSE pc' = "expand" /\ df_base' = michael(sms_logs) /\ UNCHANGED status
  /\ UNCHANGED <<appState, user_id, uuid_devices, sms_logs, df_expanded, df_final, score,
                 decision, queries, published>>
  /\ UNCHANGED peer

\* 5. Expand (Ratios)
Expand_temporal ==
  /\ pc = "expand"
  /\ df_expanded' = feature_expansion_temporal(df_base)
  /\ pc' = "select"
  /\ UNCHANGED <<appState, user_id, uuid_devices, sms_logs, df_base, df_final, score,
                 decision, status, queries, published>>
  /\ UNCHANGED <<extractor_df, peer>>

\* 6. SELECT (Filter to 20 Features)
Select_temporal ==
  /\ pc = "select"
  /\ df_final' = feature_selection_temporal(df_expanded)
  /\ pc' = "predict"
  /\ UNCHANGED <<appState, user_id, uuid_devices, sms_logs, df_base, df_expanded, score,
                 decision, status, queries, published>>
  /\ UNCHANGED <<extractor_df, peer>>

\* 7. Predict, then the result is returned; a raising predict_proba is HTTP 500
Predict_temporal ==
  /\ pc = "predict"
  /\ \/ \E p \in Probs :
          /\ score' = p
          /\ decision' = Decide_temporal(p)
          /\ pc' = "done" /\ status' = 200
     \/ /\ pc' = "done" /\ status' = 500
        /\ UNCHANGED <<score, decision>>
  /\ UNCHANGED <<appState, user_id, uuid_devices, sms_logs, df_base, df_expanded, df_final,
                 queries, published>>
  /\ UNCHANGED <<extractor_df, peer>>

NextTemporal ==
  \/ Michael
  \/ Expand_temporal
  \/ Select_temporal
  \/ Predict_temporal

SpecTemporal == InitTemporal /\ [][NextTemporal]_vars

(***************************************************************************)
(* get_sms_by_uuid_devices on any list of devices and any table: the       *)
(* request has its devices, then fetches their SMS.  Here queries holds    *)
(* the queries of the SMS table with their answers, and sms_logs the       *)
(* batches of the returned list.                                           *)
(***************************************************************************)
\* the devices of the model
Devices == {"d1", "d2", "d3"}

\* the answers of the table to the query of a device: it raises, or returns
\* no item, one item, or as many as the limit or one more
SmsResponses ==
  {[ok |-> FALSE, items |-> 0]}
  \cup {[ok |-> TRUE, items |-> n] : n \in {0, 1, SmsLimit, SmsLimit + 1}}

InitSms ==
  /\ pc = "sms"
  /\ model = "loaded" /\ db = "active" /\ publisher = "none"
  /\ dynamodb \in {"active", "none"}
  /\ user_id = "u1"
  /\ uuid_devices \in UNION {[1..n -> Devices] : n \in 0..MaxDevices}
  /\ sms_logs = <<>> /\ extractor_df = <<>>
  /\ peer = NoRequest
  /\ df_base = EmptyDf /\ df_expanded = EmptyDf /\ df_final = EmptyDf
  /\ score = NoScore /\ decision = "" /\ status = 0
  /\ queries = <<>> /\ published = <<>>

\* 3. SMS: sms_service.get_sms_by_uuid_devices(uuid_devices)
GetSms ==
  /\ pc = "sms"
  /\ \E table \in [Devices -> SmsResponses] :
       LET r == get_sms_by_uuid_devices(dynamodb # "none", table, uuid_devices)
       IN  sms_logs' = r.all_sms /\ queries' = r.queries
  /\ pc' = "extract"
  /\ UNCHANGED <<appState, user_id, uuid_devices, df_base, df_expanded, df_final, score,
                 decision, status, published>>
  /\ UNCHANGED <<extractor_df, peer>>

NextSms == GetSms

SpecSms == InitSms /\ [][NextSms]_vars

(***************************************************************************)
(* Claims                                                                  *)
(***************************************************************************)
AllZero(df) == \A i \in 1..Len(df.vals) : df.vals[i] = I(0)

\* x = a / (b + 1/10000) for finite a and b, as a fraction in lowest terms
IsStabilizedQuotient(x, a, b) ==
  /\ IsFinite(x)
  /\ 10000 * b.n + b.d # 0
  /\ x = Q(a.n * 10000 * b.d, a.d * (10000 * b.n + b.d))

\* C1: for any expanded record, feature_selection returns exactly the columns
\* of SELECTED_FEATURES in the declared order; a column the input has carries
\* the input's value and a column it lacks is 0.0.
C1_SelectionContract ==
  pc = "predict" =>
    /\ df_final.cols = SELECTED_FEATURES
    /\ Len(df_final.vals) = Len(SELECTED_FEATURES)
    /\ \A i \in 1..Len(SELECTED_FEATURES) :
         LET col == SELECTED_FEATURES[i]
         IN  IF \E j \in 1..Len(df_expanded.cols) : df_expanded.cols[j] = col
             THEN \E j \in 1..Len(df_expanded.cols) :
                    df_expanded.cols[j] = col /\ df_final.vals[i] = df_expanded.vals[j]
             ELSE df_final.vals[i] = I(0)

\* C1 witness: a selection in which one selected column was absent from the
\* expanded record and another was present with a non-zero value.
C1_Witness ==
  /\ pc = "predict"
  /\ \E i, j \in 1..Len(SELECTED_FEATURES) :
       /\ ~HasCol(df_expanded, SELECTED_FEATURES[i])
       /\ HasCol(df_expanded, SELECTED_FEATURES[j])
       /\ df_final.vals[j] # I(0)

\* C2 as stated: the record handed to the classifier has exactly 17 keys.
C2_SeventeenKeys ==
  pc \in {"predict", "publish"} => Len(df_final.cols) = 17

\* C2 as amended: the record handed to the classifier has exactly 20 keys, all
\* different: SELECTED_FEATURES has 20 elements.
C2_TwentyKeys ==
  pc \in {"predict", "publish"} =>
    /\ Len(df_final.cols) = 20
    /\ Len(df_final.vals) = 20
    /\ Cardinality(Range(df_final.cols)) = 20

\* C2 witness: the classifier has been given the record of an empty log.
C2_Witness == pc = "publish" /\ sms_logs = <<>>

\* C3: the decision is "aprobado" iff the probability is below 0.5090 and
\* "rechazado" iff it is at least 0.5090; 0.5090 and 1.0 are rejected, 0.5089
\* and 0.0 approved.
C3_Threshold ==
  decision # "" =>
    /\ score.d > 0 /\ 0 <= score.n /\ score.n <= score.d
    /\ (decision = "aprobado") <=> (score.n * 10000 < 5090 * score.d)
    /\ (decision = "rechazado") <=> (score.n * 10000 >= 5090 * score.d)
    /\ score = Q(5090, 10000) => decision = "rechazado"
    /\ score = Q(5089, 10000) => decision = "aprobado"
    /\ score = I(0) => decision = "aprobado"
    /\ score = I(1) => decision = "rechazado"

\* C3 witness: a probability of exactly 0.5090 was decided "rechazado".
C3_Witness == decision = "rechazado" /\ score = Q(5090, 10000)

\* C4: without a model every request ends with HTTP 500 before any metadata,
\* device or SMS query, and no probability, decision or published message
\* is produced.
C4_NoModelFails ==
  (model = "none" /\ pc \notin {"boot", "idle"}) =>
    /\ pc = "done"
    /\ status = 500
    /\ queries = <<>>
    /\ score = NoScore
    /\ decision = ""
    /\ published = <<>>

\* C4 witness: a request has been answered 500 by a server without a model.
C4_Witness == model = "none" /\ pc = "done" /\ status = 500

\* C5: for an empty message sequence extract_all_variables returns exactly
\* the 15 base features, each 0.0, and no other key.
C5_EmptyExtraction ==
  (sms_logs = <<>> /\ pc \in {"expand", "select", "predict", "publish"}) =>
    /\ df_base.cols = BASE_FEATURES_LIST
    /\ Len(df_base.vals) = Len(BASE_FEATURES_LIST)
    /\ AllZero(df_base)
    /\ \A c \in {"message_count", "total_count", "nivel_transaccional", "score_riesgo",
                 "message_ratio", "nequi_count"} : ~HasCol(df_base, c)

\* C5 witness: the extraction of an empty log has been done.
C5_Witness == sms_logs = <<>> /\ pc = "expand" /\ Len(df_base.cols) > 0

\* C6: an empty message sequence passes expansion and selection without
\* error, every selected value is 0, and the decision is "aprobado" whenever
\* the probability is below 0.5090.
C6_EmptyEndToEnd ==
  /\ (sms_logs = <<>> /\ pc \in {"expand", "select", "predict"}) => status = 0
  /\ (sms_logs = <<>> /\ pc \in {"predict", "publish"}) =>
       /\ df_final.cols = SELECTED_FEATURES
       /\ Len(df_final.vals) = Len(SELECTED_FEATURES)
       /\ AllZero(df_final)
  /\ (sms_logs = <<>> /\ pc = "publish" /\ score.n * 10000 < 5090 * score.d) =>
       decision = "aprobado"

\* C6 witness: the all-zero record of an empty log was decided "aprobado".
C6_Witness ==
  /\ sms_logs = <<>> /\ pc = "publish" /\ decision = "aprobado"
  /\ Len(df_final.vals) > 0 /\ AllZero(df_final)

\* the single message of the end-to-end scenario
ScenarioLog == <<[body |-> "Aprobado tu credito Visa", address |-> "BANCOLOMBIA"]>>

\* what C7 says of the scenario, for a selected record of n values
ScenarioHolds(n) ==
  (sms_logs = ScenarioLog /\ pc \in {"predict", "publish"}) =>
    /\ Get(df_base, "tarjetas_credito_count") = I(1)
    /\ Get(df_base, "aprobaciones_count") = I(1)
    /\ Get(df_base, "bancolombia_count") = I(0)
    /\ LET cf == Get(df_base, "credito_formal") IN cf.d > 0 /\ cf.n >= cf.d
    /\ Len(df_final.cols) = n /\ Len(df_final.vals) = n
    /\ \A i \in 1..Len(SELECTED_FEATURES) : HasCol(df_expanded, SELECTED_FEATURES[i])

\* C7 as stated: for the single message "Aprobado tu credito Visa" from
\* BANCOLOMBIA, tarjetas_credito_count = 1, aprobaciones_count = 1,
\* bancolombia_count = 0, credito_formal >= 1, and selection yields a 17-value
\* record none of whose columns was filled by the default.
C7_ScenarioSeventeen == ScenarioHolds(17)

\* C7 as amended: the same, and selection yields a 20-value record none of
\* whose columns was filled by the default.
C7_ScenarioTwenty == ScenarioHolds(20)

\* C7 witness: the scenario's message has been extracted, expanded and
\* selected.
C7_Witness == sms_logs = ScenarioLog /\ pc = "predict" /\ Len(df_final.cols) > 0

C9_RatiosFinite ==
  pc \in {"select", "predict"} =>
    \A i \in 1..Len(df_expanded.cols) :
       StartsAt(df_expanded.cols[i], 1, "R_") => IsFinite(df_expanded.vals[i])

\* C9 witness: a pair whose quotient is not finite was expanded, and its
\* column holds 0.
C9_Witness ==
  /\ pc = "select"
  /\ \E k \in 1..Len(Pairs) :
       /\ HasCol(df_base, Pairs[k][1]) /\ HasCol(df_base, Pairs[k][2])
       /\ ~IsFinite(PairRatio(df_base, Pairs[k][1], Pairs[k][2]))
       /\ HasCol(df_expanded, PairNames[k])
       /\ Get(df_expanded, PairNames[k]) = I(0)

\* C10: a pair with an absent operand gets no column in the expanded record;
\* feature_selection then gives that column 0.0 if it is a selected feature.
C10_AbsentPairSkipped ==
  pc \in {"select", "predict"} =>
    \A k \in 1..Len(Pairs) :
       (~HasCol(df_base, Pairs[k][1]) \/ ~HasCol(df_base, Pairs[k][2])) =>
          /\ ~HasCol(df_expanded, PairNames[k])
          /\ (pc = "predict" /\ PairNames[k] \in Range(SELECTED_FEATURES)) =>
                (HasCol(df_final, PairNames[k]) /\ Get(df_final, PairNames[k]) = I(0))

\* C10 witness: credito_formal was absent, its selected ratios were filled
\* with 0.0 and a ratio of present operands was not 0.
C10_Witness ==
  /\ pc = "predict"
  /\ ~HasCol(df_base, "credito_formal")
  /\ HasCol(df_base, "zona_premium_count") /\ HasCol(df_base, "servicios_publicos_count")
  /\ Get(df_final, "R_credito_formal_vs_tarjetas_credito_count") = I(0)
  /\ Get(df_final, "R_zona_premium_count_vs_servicios_publicos_count") # I(0)

\* the count variables of a record: the keys ending in "_count" that the
\* ratio stage reads, total_count (set after they are listed) not among them
CountKeys(df) ==
  SelectSeq(df.cols, LAMBDA c : EndsWith(c, "_count") /\ c # "total_count")

\* <name>_ratio for <name>_count
RatioKey(c) == SubSeq(c, 1, Len(c) - Len("_count")) \o "_ratio"

IsNat(v) == v.d = 1 /\ v.n >= 0

\* a request has extracted the variables of a non-empty log
Extracted == pc = "expand" /\ sms_logs # <<>>

\* C11: for every non-empty input the ratio stage emits, for every key
\* ending in "_count", the key with "_count" replaced by "_ratio", valued
\* count / total_count, where total_count is the sum of the "_count" values;
\* when total_count is 0 every ratio is 0.
C11_RatioStage ==
  Extracted =>
    LET keys  == CountKeys(df_base)
        total == Get(df_base, "total_count")
    IN  /\ total = I(SumCols(df_base, keys, 1, Len(keys)))
        /\ \A i \in 1..Len(keys) :
             /\ HasCol(df_base, RatioKey(keys[i]))
             /\ Get(df_base, RatioKey(keys[i])) =
                  (IF total.n > 0 THEN Q(Get(df_base, keys[i]).n, total.n) ELSE I(0))

\* C11 witness: a log of two messages has been extracted, and some count is
\* a proper fraction of a total larger than the number of messages.
C11_Witness ==
  /\ Extracted /\ Len(sms_logs) > 1
  /\ Get(df_base, "total_count").n > Get(df_base, "message_count").n
  /\ \E i \in 1..Len(CountKeys(df_base)) :
       LET r == Get(df_base, RatioKey(CountKeys(df_base)[i])) IN r.n > 0 /\ r.d > r.n

\* C12: for every non-empty input every key ending in "_count" has a
\* non-negative integer value, and total_count equals the sum of the
\* "_count" values.
C12_CountsAndTotal ==
  Extracted =>
    LET keys == CountKeys(df_base)
    IN  /\ \A i \in 1..Len(keys) : IsNat(Get(df_base, keys[i]))
        /\ IsNat(Get(df_base, "total_count"))
        /\ Get(df_base, "total_count").n = SumCols(df_base, keys, 1, Len(keys))

\* C12 witness: a non-empty log has been extracted in which a message is
\* counted by several signals and a non-count variable is not zero.
C12_Witness ==
  /\ Extracted
  /\ Get(df_base, "total_count").n > 2 * Get(df_base, "message_count").n
  /\ Get(df_base, "score_riesgo") # I(0)

\* C13: for every "_count" key of the extracted record, if total_count > 0
\* its ratio lies in [0, 1], and if total_count = 0 its ratio is exactly 0.
C13_RatioRange ==
  (pc = "expand" /\ HasCol(df_base, "total_count")) =>
    LET keys  == CountKeys(df_base)
        total == Get(df_base, "total_count").n
    IN  \A i \in 1..Len(keys) :
          LET r == Get(df_base, RatioKey(keys[i]))
          IN  /\ total > 0 => (r.d > 0 /\ 0 <= r.n /\ r.n <= r.d)
              /\ total = 0 => r = I(0)

\* C13 witness: an extracted record holds a zero ratio and a ratio strictly
\* between 0 and 1.
C13_Witness ==
  /\ pc = "expand" /\ HasCol(df_base, "total_count")
  /\ Get(df_base, "nequi_ratio") = I(0)
  /\ LET r == Get(df_base, "message_ratio") IN r.n > 0 /\ r.n < r.d

\* C14 as stated: every value of the raw variable record (every variable set
\* before the derived stage) is a non-negative number.
C14_RawNonNegative ==
  Extracted => \A i \in 1..Len(RawCols) : Get(df_base, RawCols[i]).n >= 0

\* rows of the extractor's frame whose lowercased body contains p
BodyRows(p) ==
  Cardinality({i \in 1..Len(extractor_df) : Contains(Lower(extractor_df[i].body), p)})

\* C14 as amended: every raw variable is a non-negative integer except
\* pospago_vs_prepago, the number of bodies with "pospago" minus the number
\* with "prepago", which lies between -message_count and message_count.
C14_RawNonNegativeButDifference ==
  Extracted =>
    /\ \A i \in 1..Len(RawCols) :
         RawCols[i] # "pospago_vs_prepago" => IsNat(Get(df_base, RawCols[i]))
    /\ LET pvp == Get(df_base, "pospago_vs_prepago")
       IN  /\ pvp = I(BodyRows("pospago") - BodyRows("prepago"))
           /\ -Len(sms_logs) <= pvp.n /\ pvp.n <= Len(sms_logs)

\* C14 witness: extracted logs where pospago_vs_prepago is negative
C14_Witness == Extracted /\ Get(df_base, "pospago_vs_prepago").n < 0

\* the fields of a message that _convert_to_dataframe reads
BodyFields == <<"body", "content", "message">>

AddressFields == <<"address", "sender", "from">>

\* the first of the fields that message m carries, else the default
RECURSIVE FirstField(_, _, _)
FirstField(m, fields, default) ==
  IF fields = <<>> THEN default
  ELSE IF Head(fields) \in DOMAIN m THEN m[Head(fields)]
  ELSE FirstField(m, Tail(fields), default)

\* the first of the fields that any message of the log carries, else "none"
RECURSIVE FirstColumn(_, _)
FirstColumn(log, fields) ==
  IF fields = <<>> THEN "none"
  ELSE IF \E i \in 1..Len(log) : Head(fields) \in DOMAIN log[i] THEN Head(fields)
  ELSE FirstColumn(log, Tail(fields))

\* the value matched for message m when the log's column is col
ColumnValue(m, col, default) ==
  IF col = "none" THEN default ELSE IF col \in DOMAIN m THEN m[col] ELSE ""

\* C15 as stated: for every message, the body matched is its body, else its
\* content, else its message, else ""; the address matched is its address,
\* else its sender, else its from, else "unknown"; in any collection.
C15_PerMessageFallback ==
  (pc = "expand") =>
    \A i \in 1..Len(sms_logs) :
      /\ extractor_df[i].body = FirstField(sms_logs[i], BodyFields, "")
      /\ extractor_df[i].address = FirstField(sms_logs[i], AddressFields, "unknown")

\* C15 as amended: the fallback is taken for the collection, not for the
\* message.  The body column is the first of body, content, message that any
\* message of the collection carries, and a message without that field is
\* matched as "", whatever other fields it has; only when no message carries
\* any of the three is every body "".  Likewise address, sender, from for the
\* address, with "unknown" only when no message carries any of the three.
C15_ColumnFallback ==
  (pc = "expand") =>
    \A i \in 1..Len(sms_logs) :
      /\ extractor_df[i].body =
           ColumnValue(sms_logs[i], FirstColumn(sms_logs, BodyFields), "")
      /\ extractor_df[i].address =
           ColumnValue(sms_logs[i], FirstColumn(sms_logs, AddressFields), "unknown")

\* C15 witness: a message with content and sender but no body or address was
\* extracted next to one that has body and address, and was matched as "".
C15_Witness ==
  /\ pc = "expand" /\ Len(sms_logs) = 2
  /\ DOMAIN sms_logs[1] = {"body", "address"}
  /\ DOMAIN sms_logs[2] = {"content", "sender"}
  /\ extractor_df[2] = [body |-> "", address |-> ""]

\* message m has none of the fields _convert_to_dataframe reads
Unrecognizable(m) == DOMAIN m \cap (Range(BodyFields) \cup Range(AddressFields)) = {}

\* the variables whose value is a count of rows matching a pattern of the
\* body or of the address
PatternCols ==
  [k \in 1..Len(BodySignals) |-> BodySignals[k].name]
  \o <<"pospago_vs_prepago", "pishing_count", "email_count", "whatsapp_count">>

\* the log without its i-th message
Without(log, i) == SubSeq(log, 1, i - 1) \o SubSeq(log, i + 1, Len(log))

\* the extractor raised on a non-empty log
ExtractionRaised == status = 500 /\ sms_logs # <<>> /\ extractor_df # <<>> /\ df_base = EmptyDf

\* C16: extraction raises for no message sequence, whichever of body and
\* address its messages lack, and a message with no recognizable body and
\* address adds zero to every body-pattern and address-pattern count: the
\* counts are those of the log without it.
C16_NeverRaises ==
  /\ ~ExtractionRaised
  /\ (pc = "expand") =>
       \A i \in 1..Len(sms_logs) :
         Unrecognizable(sms_logs[i]) =>
           LET rest == mensajes(Without(sms_logs, i))
           IN  \A k \in 1..Len(PatternCols) :
                 Get(df_base, PatternCols[k]) =
                   (IF HasCol(rest, PatternCols[k]) THEN Get(rest, PatternCols[k]) ELSE I(0))

\* C16 witness: a log of an unrecognizable message and a message matched by
\* body and address patterns has been extracted.
C16_Witness ==
  /\ pc = "expand" /\ Len(sms_logs) = 2
  /\ Unrecognizable(sms_logs[1]) /\ ~Unrecognizable(sms_logs[2])
  /\ Get(df_base, "otp_count") = I(1) /\ Get(df_base, "whatsapp_count") = I(1)
  /\ Get(df_base, "message_count") = I(2)

\* the digit characters of s, counted one by one
DigitsIn(s) == Cardinality({j \in 1..Len(s) : SubSeq(s, j, j) \in
                 {"0", "1", "2", "3", "4", "5", "6", "7", "8", "9"}})

\* rows of the extractor's frame whose address satisfies P
AddressRows(P(_)) == Cardinality({i \in 1..Len(extractor_df) : P(extractor_df[i].address)})

\* C17: for every non-empty message sequence message_count is the number of
\* messages, address_count the number of distinct sender identifiers,
\* pishing_count the number of messages whose sender identifier holds at
\* least 10 digits, and email_count and whatsapp_count are functions of the
\* address column alone: bodies do not enter them.
C17_SenderCounts ==
  Extracted =>
    /\ Get(df_base, "message_count") = I(Len(sms_logs))
    /\ Get(df_base, "address_count") =
         I(Cardinality({extractor_df[i].address : i \in 1..Len(extractor_df)}))
    /\ Get(df_base, "pishing_count") = I(AddressRows(LAMBDA a : DigitsIn(a) >= 10))
    /\ Get(df_base, "email_count") = I(AddressRows(LAMBDA a : \E j \in 1..Len(a) : SubSeq(a, j, j) = "@"))
    /\ Get(df_base, "whatsapp_count") = I(AddressRows(LAMBDA a : WhatsappMatch(Lower(a))))

\* C17 witness: two messages of different senders were extracted, one sender
\* a 10-digit number and the other an e-mail address.
C17_Witness ==
  /\ Extracted /\ Get(df_base, "message_count") = I(2)
  /\ Get(df_base, "address_count") = I(2)
  /\ Get(df_base, "pishing_count") = I(1) /\ Get(df_base, "email_count") = I(1)

\* C18: score_riesgo = 2*estres_financiero - 3*buen_comportamiento_pago
\* - 2*estabilidad_laboral + 5*casas_empeno_count, on the derived values of
\* the same record.
C18_ScoreRiesgo ==
  Extracted =>
    Get(df_base, "score_riesgo") =
      I(2 * Get(df_base, "estres_financiero").n
        - 3 * Get(df_base, "buen_comportamiento_pago").n
        - 2 * Get(df_base, "estabilidad_laboral").n
        + 5 * Get(df_base, "casas_empeno_count").n)

\* C18 witness: a record in which all four terms of score_riesgo are not zero
C18_Witness ==
  /\ Extracted
  /\ Get(df_base, "estres_financiero").n > 0
  /\ Get(df_base, "buen_comportamiento_pago").n > 0
  /\ Get(df_base, "estabilidad_laboral").n > 0
  /\ Get(df_base, "casas_empeno_count").n > 0

\* a ratio-style derived metric: the numerator over a denominator of
\* non-negative counts plus 1, hence a denominator >= 1 and a value >= 0
IsGuardedRatio(metric, num, counts) ==
  LET den == counts + 1
  IN  /\ counts >= 0 /\ den >= 1
      /\ Get(df_base, metric) = Q(num, den)
      /\ Get(df_base, metric).d > 0 /\ Get(df_base, metric).n >= 0

\* C20: the derived stage never divides by zero: the denominators of
\* ratio_ingresos_gastos, ratio_aprobaciones_rechazos,
\* ratio_credito_formal_informal and ratio_obligaciones_ingresos are sums of
\* non-negative counts plus 1, and each metric is >= 0.
C20_GuardedDenominators ==
  Extracted =>
    LET v(k) == Get(df_base, k).n
    IN  /\ IsGuardedRatio("ratio_ingresos_gastos", v("ingresos_count"), v("gastos_count"))
        /\ IsGuardedRatio("ratio_aprobaciones_rechazos", v("aprobaciones_count"),
                          v("rechazos_count"))
        /\ IsGuardedRatio("ratio_credito_formal_informal", v("credito_formal"),
                          v("casas_empeno_count"))
        /\ IsGuardedRatio("ratio_obligaciones_ingresos", v("obligaciones_fijas"),
                          v("ingresos_count") + v("nomina_count"))

\* C20 witness: a record where a denominator's counts are 0 and another's
\* are not, with a metric strictly between 0 and 1.
C20_Witness ==
  /\ Extracted
  /\ Get(df_base, "gastos_count").n > 0 /\ Get(df_base, "rechazos_count") = I(0)
  /\ LET r == Get(df_base, "ratio_ingresos_gastos") IN r.n > 0 /\ r.n < r.d

\* a step of the running request, as the request takes it when it runs
\* alone: its log stays its own, and each record it holds is computed from
\* its own log, base record or expanded record, or kept
OwnStep ==
  /\ sms_logs' = sms_logs
  /\ df_base' = IF pc = "extract" /\ pc' = "expand" THEN mensajes(sms_logs) ELSE df_base
  /\ df_expanded' = IF pc = "expand" THEN feature_expansion(df_base) ELSE df_expanded
  /\ df_final' = IF pc = "select" THEN feature_selection(df_expanded) ELSE df_final
  /\ IF pc = "predict" /\ pc' = "publish"
     THEN decision' = Decide(score')
     ELSE score' = score /\ decision' = decision
  /\ \A k \in 1..Len(published') :
       /\ published'[k].features_used = df_final /\ published'[k].decision = decision
       /\ published'[k].sms_count = Len(sms_logs)

\* C19: concurrent run_debito_check requests do not interfere.  In every
\* interleaving of two requests, a step either hands the processor over,
\* exchanging the two requests' locals untouched, or is a step of the running
\* request that leaves the other request's locals as they are and computes
\* what the request computes alone on its own messages.
C19_NoInterference ==
  [][IF peer' # peer THEN peer' = locals /\ locals' = peer ELSE OwnStep]_vars

\* C19 witness: the two requests, on different logs, are both between
\* extraction and the decision, one of them selected and the other expanded.
C19_Witness ==
  /\ pc = "predict" /\ peer[1] = "select"
  /\ sms_logs # peer[4] /\ sms_logs # <<>> /\ peer[4] # <<>>
  /\ df_final # feature_selection(peer[7])

\* C21: engagement_score = 2*otp_count + nivel_transaccional
\* + 3*diversificacion_financiera on the values of the same record, where
\* nivel_transaccional = ingresos_count + gastos_count + montos_count and
\* diversificacion_financiera is how many of the nequi, bancolombia,
\* davivienda, otros_bancos and billeteras counts are > 0 (0 to 5).
C21_EngagementScore ==
  Extracted =>
    LET v(k)  == Get(df_base, k).n
        banks == {"nequi_count", "bancolombia_count", "davivienda_count",
                  "otros_bancos_count", "billeteras_count"}
    IN  /\ v("nivel_transaccional") = v("ingresos_count") + v("gastos_count") + v("montos_count")
        /\ v("diversificacion_financiera") = Cardinality({b \in banks : v(b) > 0})
        /\ Get(df_base, "engagement_score") =
             I(2 * v("otp_count") + v("nivel_transaccional")
               + 3 * v("diversificacion_financiera"))

\* C21 witness: a record whose three terms are not zero, with a bank counted
\* twice and so counted once by diversificacion_financiera.
C21_Witness ==
  /\ Extracted
  /\ Get(df_base, "otp_count").n > 0 /\ Get(df_base, "nivel_transaccional").n > 0
  /\ Get(df_base, "nequi_count") = I(2) /\ Get(df_base, "diversificacion_financiera") = I(1)

\* C22: what temporal.py's handler computes from a log is what fast.py's
\* pipeline computes from it: the same extracted record, the same expanded
\* frame, the same selected record, and from the same score the same
\* decision
C22_VariantsAgree ==
  /\ pc = "expand" => df_base = mensajes(sms_logs)
  /\ pc = "select" => df_expanded = feature_expansion(df_base)
  /\ pc = "predict" => df_final = feature_selection(feature_expansion(mensajes(sms_logs)))
  /\ (pc = "done" /\ status = 200) => decision = Decide(score)

C22_Witness ==
  /\ pc = "done" /\ status = 200 /\ score = THRESHOLD /\ decision = "rechazado"
  /\ Len(sms_logs) = 2 /\ df_final = feature_selection(df_expanded)
  /\ \E i \in 1..Len(df_final.vals) : df_final.vals[i] # I(0)

RECURSIVE Pow2(_)
Pow2(k) == IF k = 0 THEN 1 ELSE 2 * Pow2(k - 1)

\* the sum of the rounding errors of the stored ratios, in units of
\* 1 / (total_count * 2^emax): zero exactly when the stored values sum to
\* the sum of the exact quotients
RECURSIVE RatioErrorSum(_, _, _, _)
RatioErrorSum(df, keys, lo, hi) ==
  IF lo > hi THEN 0
  ELSE IF lo = hi
       THEN LET count == Get(df, keys[lo]).n
                total == Get(df, "total_count").n
                emax  == 52 + BinaryExponent(1, total)
                qr    == QuotientRounding(count, total)
            IN  IF count = 0 THEN 0 ELSE qr.err * Pow2(emax - qr.e)
       ELSE LET mid == (lo + hi) \div 2
            IN  RatioErrorSum(df, keys, lo, mid) + RatioErrorSum(df, keys, mid + 1, hi)

\* the exact sum of the quotients the ratio keys stand for
RECURSIVE RatioSum(_, _, _, _)
RatioSum(df, keys, lo, hi) ==
  IF lo > hi THEN I(0)
  ELSE IF lo = hi THEN Get(df, RatioKey(keys[lo]))
       ELSE LET mid == (lo + hi) \div 2
            IN  FAdd(RatioSum(df, keys, lo, mid), RatioSum(df, keys, mid + 1, hi))

\* C23 as stated: for a non-empty log total_count >= message_count >= 1
\* and the stored "_ratio" values of all "_count" keys sum to exactly 1.
C23_RatiosSumToOne ==
  Extracted =>
    LET keys == CountKeys(df_base)
    IN  /\ Get(df_base, "message_count").n >= 1
        /\ Get(df_base, "total_count").n >= Get(df_base, "message_count").n
        /\ RatioSum(df_base, keys, 1, Len(keys)) = I(1)
        /\ RatioErrorSum(df_base, keys, 1, Len(keys)) = 0

\* C23 amended: for a non-empty log total_count >= message_count >= 1, so
\* every ratio is its count over a positive total_count, and the exact
\* quotients count / total_count sum to 1.
C23_QuotientsSumToOne ==
  Extracted =>
    LET keys  == CountKeys(df_base)
        total == Get(df_base, "total_count").n
    IN  /\ Get(df_base, "message_count").n >= 1
        /\ total >= Get(df_base, "message_count").n
        /\ \A i \in 1..Len(keys) :
             Get(df_base, RatioKey(keys[i])) = Q(Get(df_base, keys[i]).n, total)
        /\ RatioSum(df_base, keys, 1, Len(keys)) = I(1)

\* C23 witness: a record whose total is larger than its message count, with
\* a ratio that binary64 cannot hold exactly
C23_Witness ==
  /\ Extracted
  /\ Get(df_base, "total_count").n > Get(df_base, "message_count").n
  /\ \E i \in 1..Len(CountKeys(df_base)) :
       LET count == Get(df_base, CountKeys(df_base)[i]).n
       IN  count > 0 /\ QuotientRounding(count, Get(df_base, "total_count").n).err # 0

\* C24: for a non-empty log every body-signal and address-signal count is
\* at most message_count, however often a pattern occurs in a message;
\* 1 <= address_count <= message_count; |pospago_vs_prepago| <= message_count.
C24_CountsBounded ==
  Extracted =>
    LET keys == CountKeys(df_base)
        n    == Get(df_base, "message_count").n
        diff == Get(df_base, "pospago_vs_prepago").n
    IN  /\ n = Len(sms_logs)
        /\ \A i \in 1..Len(keys) : Get(df_base, keys[i]).n <= n
        /\ 1 <= Get(df_base, "address_count").n
        /\ 0 - n <= diff /\ diff <= n

\* C24 witness: one message whose body holds two alternatives of one signal
\* is counted once by it
C24_Witness ==
  /\ Extracted /\ Len(sms_logs) = 1
  /\ Contains(Lower(extractor_df[1].body), "prenda")
  /\ Contains(Lower(extractor_df[1].body), "empeño")
  /\ Get(df_base, "casas_empeno_count") = I(1)

\* C25: on a pipeline run, for an empty or a non-empty log, every base
\* feature of the extracted record is an integer or a non-negative ratio,
\* every denominator value + 0.0001 of feature_expansion is finite and not
\* zero, every quotient is finite, and the replacement of non-finite values
\* changes no value of the expanded frame.
C25_SanitizeIdle ==
  pc = "select" =>
    LET ratios == RatioFeatures(df_base)
    IN  /\ \A i \in 1..Len(BASE_FEATURES_LIST) :
             LET b == BASE_FEATURES_LIST[i]
                 v == Get(df_base, b)
                 d == FAdd(v, epsilon)
             IN  /\ HasCol(df_base, b)
                 /\ IsFinite(v) /\ (v.d = 1 \/ v.n >= 0)
                 /\ IsFinite(d) /\ d.n # 0
        /\ Len(ratios.cols) = Len(Pairs)
        /\ \A k \in 1..Len(ratios.vals) : IsFinite(ratios.vals[k])
        /\ \A k \in 1..Len(df_base.vals) : IsFinite(df_base.vals[k])
        /\ df_expanded = Concat(df_base, ratios)

\* C25 witness: the expanded frame of a non-empty log with a negative base
\* feature and a zero one, so that a denominator is -1 + 0.0001 and a
\* quotient is 0 / 0.0001
C25_Witness ==
  /\ pc = "select" /\ sms_logs # <<>>
  /\ Get(df_base, "pospago_vs_prepago") = I(-1)
  /\ Get(df_base, "casas_empeno_count") = I(0)
  /\ Get(df_expanded, "R_casas_empeno_count_vs_pospago_vs_prepago") = I(0)
  /\ Get(df_expanded, "R_casas_empeno_count_vs_credito_formal") = I(0)

\* the selected columns the expanded frame lacks, which feature_selection
\* fills with 0.0
Defaulted == {c \in Range(SELECTED_FEATURES) : ~HasCol(df_expanded, c)}

\* C26: every selected name that starts with "R_" is the generated name of
\* an ordered pair of distinct base features; on a pipeline run over a
\* non-empty log feature_selection defaults no column, and over an empty
\* log it defaults exactly message_count, nivel_transaccional, score_riesgo.
C26_DefaultedColumns ==
  pc = "predict" =>
    /\ \A i \in 1..Len(SELECTED_FEATURES) :
         StartsAt(SELECTED_FEATURES[i], 1, "R_") =>
           \E k \in 1..Len(Pairs) :
             /\ Pairs[k][1] \in Range(BASE_FEATURES_LIST)
             /\ Pairs[k][2] \in Range(BASE_FEATURES_LIST)
             /\ Pairs[k][1] # Pairs[k][2]
             /\ SELECTED_FEATURES[i] = RatioName(Pairs[k][1], Pairs[k][2])
             /\ sms_logs # <<>> =>
                  Get(df_final, SELECTED_FEATURES[i]) = PairRatio(df_base, Pairs[k][1], Pairs[k][2])
    /\ Defaulted = IF sms_logs = <<>>
                   THEN {"message_count", "nivel_transaccional", "score_riesgo"}
                   ELSE {}
    /\ \A c \in Defaulted : Get(df_final, c) = I(0)

\* C26 witness: the selected record of an empty log, with three columns
\* defaulted and the others taken from the expanded frame
C26_Witness ==
  /\ pc = "predict" /\ sms_logs = <<>>
  /\ Cardinality(Defaulted) = 3
  /\ HasCol(df_expanded, "R_casas_empeno_count_vs_credito_formal")
  /\ Len(df_final.cols) = Len(SELECTED_FEATURES)

\* C27: the 210 names generated from BASE_FEATURES_LIST are pairwise
\* distinct and none is a key of the base record, so the expanded frame has
\* every base column with its value, then 210 further columns, and no
\* column name twice.
C27_NamesDistinct ==
  pc = "select" =>
    /\ Len(PairNames) = 210
    /\ \A j, k \in 1..Len(PairNames) : PairNames[j] = PairNames[k] => j = k
    /\ Range(PairNames) \cap Range(df_base.cols) = {}
    /\ Len(df_expanded.cols) = Len(df_base.cols) + 210
    /\ Cardinality(Range(df_expanded.cols)) = Len(df_expanded.cols)
    /\ \A i \in 1..Len(df_base.cols) :
         df_expanded.cols[i] = df_base.cols[i] /\ df_expanded.vals[i] = df_base.vals[i]
    /\ \A k \in 1..Len(PairNames) :
         Get(df_expanded, PairNames[k]) = PairRatio(df_base, Pairs[k][1], Pairs[k][2])

\* C27 witness: an expanded frame in which the base feature
\* pospago_vs_prepago is not zero and the two ratios between it and another
\* base feature are different columns with different values
C27_Witness ==
  /\ pc = "select" /\ sms_logs # <<>>
  /\ Get(df_base, "pospago_vs_prepago") = I(1)
  /\ Get(df_base, "tarjetas_credito_count") = I(0)
  /\ Get(df_expanded, "R_pospago_vs_prepago_vs_tarjetas_credito_count")
       # Get(df_expanded, "R_tarjetas_credito_count_vs_pospago_vs_prepago")
  /\ Get(df_expanded, "pospago_vs_prepago") = I(1)

\* the publish attempts of the request so far
Attempts(q) == Cardinality({i \in 1..Len(q) : q[i] = "publish"})

\* C28: in every step of fast.py's handler, a publish is attempted only at
\* the publish step, with the decision computed and no earlier attempt; a
\* message is published only by such an attempt and is the result; the
\* publish step, whether it publishes, fails or is skipped for want of a
\* publisher, returns the same result with HTTP 200; and a request that
\* ends in an error has attempted and published nothing.
C28_PublishOnce ==
  [][/\ Attempts(queries') > Attempts(queries) =>
          /\ pc = "publish" /\ publisher # "none"
          /\ Attempts(queries) = 0 /\ Attempts(queries') = 1
          /\ decision # "" /\ decision = Decide(score)
     /\ Len(published') > Len(published) =>
          /\ Attempts(queries') > Attempts(queries)
          /\ published' = <<Result>>
     /\ pc = "publish" =>
          /\ pc' = "done" /\ status' = 200
          /\ Result' = Result
          /\ publisher = "none" => (queries' = queries /\ published' = published)
     /\ status' \in {404, 500} => (Attempts(queries') = 0 /\ published' = <<>>)
    ]_vars

\* C28 witness: a request whose publish was attempted and failed has
\* returned its decision with HTTP 200
C28_Witness ==
  /\ pc = "done" /\ status = 200 /\ decision = "aprobado"
  /\ publisher = "ready" /\ Attempts(queries) = 1 /\ published = <<>>

\* C29: with a loaded model, a credit that is not found or has no userId
\* ends with HTTP 404 after the metadata query alone, with no device or SMS
\* query, no extraction and no classifier call; an inactive Firestore and a
\* classifier error end with HTTP 500 and nothing else raises: a request
\* with no devices or no SMS goes through every step to the classifier.
C29_ErrorStatus ==
  model = "loaded" =>
    /\ status \in {0, 200, 404, 500}
    /\ status # 0 <=> pc = "done"
    /\ (pc = "done" /\ db = "active" /\ user_id = "") => status = 404
    /\ status = 404 =>
         /\ db = "active" /\ user_id = "" /\ queries = <<"metadata">>
         /\ uuid_devices = <<>> /\ sms_logs = <<>> /\ extractor_df = <<>>
         /\ df_base = EmptyDf /\ df_expanded = EmptyDf /\ df_final = EmptyDf
         /\ score = NoScore /\ decision = "" /\ published = <<>>
    /\ (pc = "done" /\ db = "none") => (status = 500 /\ queries = <<>>)
    /\ (status = 500 /\ db = "active") =>
         /\ user_id # "" /\ df_final = feature_selection(df_expanded)
         /\ df_final # EmptyDf /\ score = NoScore /\ decision = ""
    /\ status = 200 => (decision = Decide(score) /\ score \in Probs)

\* C29 witness: a user without devices, hence without SMS, has received a
\* decision
C29_Witness ==
  /\ pc = "done" /\ status = 200 /\ model = "loaded"
  /\ uuid_devices = <<>> /\ sms_logs = <<>> /\ decision \in {"aprobado", "rechazado"}
  /\ "devices" \in Range(queries)

\* the batches of the answers: every query that returned items, in order
SmsBatches(q) ==
  LET got == SelectSeq(q, LAMBDA e : e.response.ok /\ e.response.items > 0)
  IN  [j \in 1..Len(got) |-> [device |-> got[j].device, items |-> got[j].response.items]]

\* C30: get_sms_by_uuid_devices queries the devices in list order and
\* returns the concatenation of the items of the queries that succeeded; a
\* device whose query raises is skipped and the next one is queried; a
\* device is queried exactly when the total before it is at most 5000, and
\* the list returned is whole, whatever its length; without a table or
\* without devices nothing is queried and the list is empty.
C30_SmsQueries ==
  pc = "extract" =>
    LET n == Len(queries)
    IN  /\ (dynamodb = "none" \/ uuid_devices = <<>>) => (n = 0 /\ sms_logs = <<>>)
        /\ n <= Len(uuid_devices)
        /\ \A j \in 1..n : queries[j].device = uuid_devices[j]
        /\ sms_logs = SmsBatches(queries)
        /\ \A j \in 1..n : SmsLen(SmsBatches(SubSeq(queries, 1, j - 1))) <= SmsLimit
        /\ (dynamodb # "none" /\ n < Len(uuid_devices)) =>
             (n > 0 /\ queries[n].response.ok /\ SmsLen(sms_logs) > SmsLimit)

\* C30 witness: the first device's query raised, the second brought the
\* total to 5000 and the third was queried and took it past 5000, to a
\* list longer than 5000
C30_Witness ==
  /\ pc = "extract" /\ Len(uuid_devices) = 3 /\ Len(queries) = 3
  /\ ~queries[1].response.ok
  /\ queries[2].response.items = SmsLimit
  /\ queries[3].response.items = SmsLimit + 1
  /\ SmsLen(sms_logs) = 2 * SmsLimit + 1

====
